---------------------------- MODULE Spec2Model ----------------------------
(***************************************************************************)
(* A model of docgen's Markdown extension pipeline                         *)
(* (src/src/markdown/parser.rs and src/src/markdown/extensions/*.rs).      *)
(*                                                                         *)
(* Strings that the code inspects character by character (URLs, heading    *)
(* and block-quote text) are sequences of one-character strings.  The      *)
(* markup that html!() formats is a TLA+ string, built by concatenation as *)
(* format!() builds it.  The document that push_html writes and to_html    *)
(* sanitizes is a sequence of characters again.  Option<T> is a sequence   *)
(* of length 0 (None) or 1 (Some).                                         *)
(***************************************************************************)
EXTENDS Naturals, Sequences, FiniteSets, TLC

VARIABLES
    scenario,            \* which family of documents this run draws from
    features,            \* the Cargo features the crate was built with
    url_root,            \* ParseOptions.url_root
    link_rewrite_rules,  \* ParseOptions.link_rewrite_rules: set of <<key, value>>
    url_params,          \* ParseOptions.url_params: sequence of <<key, value>>
    src,                 \* the events the source has produced so far
    stack,               \* the tags of the source that are still open
    events,              \* parse: the output token buffer
    links,               \* parse: the links result
    headings,            \* parse: the headings result
    current_tabgroup,    \* Tabs.current_tabgroup
    current_tab,         \* Tabs.current_tab
    current_link,        \* LinkRewriter.current_link
    current_heading,     \* TableOfContents.current_heading
    last,                \* history: the event of the last step, the extensions
                         \* it called with what each returned, and the
                         \* extensions' state before it
    pc,                  \* "parsing", "done" or "panicked"
    SYNTAX_SET,          \* codeblock.rs: the static OnceCell<SyntaxSet>
    loaded,              \* how many SyntaxSets the process has loaded so far
    parsers,             \* the parser instances of the other threads: where
                         \* each is, the SyntaxSet it owns and the one its
                         \* CodeBlock has read
    convert              \* a convert_emojis call followed step by step: its
                         \* input, its output and where it is

vars == <<scenario, features, url_root, link_rewrite_rules, url_params, src, stack,
          events, links, headings, current_tabgroup, current_tab,
          current_link, current_heading, last, pc, SYNTAX_SET, loaded,
          parsers, convert>>

---------------------------------------------------------------------------
(* Bounds of the model.                                                    *)

\* The number of events a document of the general scenario holds at most
\* (closing events of tags still open are always allowed beyond it).
MaxEvents == 6
\* The same for the scenario of link documents.
MaxLinkEvents == 7
\* The same for the scenario of URL rewriting.
MaxRewriteEvents == 2
\* The same for the scenario of tab-group documents.
MaxTabEvents == 8
\* The same for the scenario of heading documents.
MaxHeadingEvents == 6
\* The same for the scenarios of callout documents.
MaxCalloutEvents == 7
\* The same for the scenario of nested block quotes with headings.
MaxNestedEvents == 11
\* The same for the scenario of code blocks.
MaxCodeEvents == 5
\* The same for the scenario of raw HTML.
MaxHtmlEvents == 3
\* The same for the scenario of task lists.
MaxTaskEvents == 7
\* The same for the scenario of texts with emoji shortcodes.
MaxEmojiEvents == 5
\* The number of threads that each run a parser instance.
MaxThreads == 3
\* The number of fenced code blocks each of them ends.
MaxBlocks == 2
\* The number of events of a document of links with titles and inline markup.
MaxTitleEvents == 7
\* The number of events of a document of lists given to Tasklist.
MaxTasklistEvents == 9
\* The number of pieces (a colon, a letter, a shortcode name) of a text
\* given to convert_emojis.
MaxPieces == 4

---------------------------------------------------------------------------
(* Characters and strings.                                                 *)

Lower == {"a", "b", "c", "d", "e", "f", "g", "h", "i", "j", "k", "l", "m",
          "n", "o", "p", "q", "r", "s", "t", "u", "v", "w", "x", "y", "z"}
Upper == {"A", "B", "C", "D", "E", "F", "G", "H", "I", "J", "K", "L", "M",
          "N", "O", "P", "Q", "R", "S", "T", "U", "V", "W", "X", "Y", "Z"}
Digit == {"0", "1", "2", "3", "4", "5", "6", "7", "8", "9"}
Whitespace == {" ", "\t", "\n"}

\* u8 arithmetic x - b'A' + b'a' of the slug crate, by table
ToLower(c) ==
    CASE c = "A" -> "a" [] c = "B" -> "b" [] c = "C" -> "c" [] c = "D" -> "d"
      [] c = "E" -> "e" [] c = "F" -> "f" [] c = "G" -> "g" [] c = "H" -> "h"
      [] c = "I" -> "i" [] c = "J" -> "j" [] c = "K" -> "k" [] c = "L" -> "l"
      [] c = "M" -> "m" [] c = "N" -> "n" [] c = "O" -> "o" [] c = "P" -> "p"
      [] c = "Q" -> "q" [] c = "R" -> "r" [] c = "S" -> "s" [] c = "T" -> "t"
      [] c = "U" -> "u" [] c = "V" -> "v" [] c = "W" -> "w" [] c = "X" -> "x"
      [] c = "Y" -> "y" [] c = "Z" -> "z" [] OTHER -> c

\* String::from / to_string of a character sequence: the string itself
RECURSIVE Join(_)
Join(s) ==
    IF s = <<>> THEN ""
    ELSE IF Len(s) = 1 THEN s[1]
    ELSE Join(SubSeq(s, 1, Len(s) \div 2))
            \o Join(SubSeq(s, Len(s) \div 2 + 1, Len(s)))

\* the sequences of ss[lo..hi], one after the other
RECURSIVE Concat(_, _, _)
Concat(ss, lo, hi) ==
    IF lo > hi THEN <<>>
    ELSE IF lo = hi THEN ss[lo]
    ELSE Concat(ss, lo, (lo + hi) \div 2)
            \o Concat(ss, (lo + hi) \div 2 + 1, hi)

StartsWith(s, p) == Len(s) >= Len(p) /\ SubSeq(s, 1, Len(p)) = p

Drop(s, n) == SubSeq(s, n + 1, Len(s))

\* str::trim_end_matches(c)
RECURSIVE TrimEndMatches(_, _)
TrimEndMatches(s, c) ==
    IF s # <<>> /\ s[Len(s)] = c
    THEN TrimEndMatches(SubSeq(s, 1, Len(s) - 1), c)
    ELSE s

\* the position of the first c in s, 0 when there is none (str::find)
FindFrom(s, c, i) ==
    LET at == {j \in i..Len(s) : s[j] = c}
    IN  IF at = {} THEN 0 ELSE CHOOSE j \in at : \A k \in at : j <= k

Find(s, c) == FindFrom(s, c, 1)

\* str::split_whitespace: the maximal runs of non-whitespace characters
split_whitespace(s) ==
    LET black(i) == i >= 1 /\ i <= Len(s) /\ s[i] \notin Whitespace
        starts == {i \in 1..Len(s) : black(i) /\ ~black(i - 1)}
        stop(i) == CHOOSE j \in i..Len(s) :
                       /\ \A k \in i..j : black(k)
                       /\ ~black(j + 1)
        nth(k) == CHOOSE i \in starts :
                      Cardinality({j \in starts : j <= i}) = k
    IN  [k \in 1..Cardinality(starts) |-> SubSeq(s, nth(k), stop(nth(k)))]

None == <<>>
Some(x) == <<x>>
IsSome(o) == o # <<>>
Unwrap(o) == o[1]

---------------------------------------------------------------------------
(* pulldown_cmark::Event.  One record shape for every event:               *)
(*   k     Start | End | Text | Code | Html | Rule | TaskListMarker        *)
(*   tag   the Tag of a Start or End                                       *)
(*   lvl   the level of a Heading; of a TaskListMarker, 1 when checked     *)
(*   lt    the LinkType of a Link or Image, the CodeBlockKind of a         *)
(*         CodeBlock                                                       *)
(*   url   the destination of a Link or Image                              *)
(*   title the title attribute of a Link or Image                          *)
(*   s     the content of Text and Code and the info string of a fenced    *)
(*         CodeBlock (characters); of Html, the markup (one string)        *)

Ev(k, tag, lvl, lt, url, title, s) ==
    [k |-> k, tag |-> tag, lvl |-> lvl, lt |-> lt, url |-> url,
     title |-> title, s |-> s]

Start(tag) == Ev("Start", tag, 0, "", <<>>, <<>>, <<>>)
End(tag) == Ev("End", tag, 0, "", <<>>, <<>>, <<>>)
StartHeading(l) == Ev("Start", "Heading", l, "", <<>>, <<>>, <<>>)
EndHeading(l) == Ev("End", "Heading", l, "", <<>>, <<>>, <<>>)
StartLink(lt, url, title) == Ev("Start", "Link", 0, lt, url, title, <<>>)
EndLink(lt, url, title) == Ev("End", "Link", 0, lt, url, title, <<>>)
StartImage(lt, url, title) == Ev("Start", "Image", 0, lt, url, title, <<>>)
EndImage(lt, url, title) == Ev("End", "Image", 0, lt, url, title, <<>>)
StartCodeBlock(kind, info) == Ev("Start", "CodeBlock", 0, kind, <<>>, <<>>, info)
EndCodeBlock(kind, info) == Ev("End", "CodeBlock", 0, kind, <<>>, <<>>, info)
Text(s) == Ev("Text", "", 0, "", <<>>, <<>>, s)
Code(s) == Ev("Code", "", 0, "", <<>>, <<>>, s)
Rule == Ev("Rule", "", 0, "", <<>>, <<>>, <<>>)
TaskListMarker(checked) ==
    Ev("TaskListMarker", "", IF checked THEN 1 ELSE 0, "", <<>>, <<>>, <<>>)

\* the html!() macro: Event::Html of the formatted string
Html(str) == Ev("Html", "", 0, "", <<>>, <<>>, <<str>>)

IsStart(e, tag) == e.k = "Start" /\ e.tag = tag
IsEnd(e, tag) == e.k = "End" /\ e.tag = tag
IsTextOrCode(e) == e.k \in {"Text", "Code"}

\* the End event that closes a Start event
Closing(e) == [e EXCEPT !.k = "End"]

\* the greatest index i of a Start(tag) event in s[1..i], 0 if there is none
\* (iter().rev().position / find)
RECURSIVE RFindStart(_, _, _)
RFindStart(s, tag, i) ==
    IF i = 0 THEN 0
    ELSE IF IsStart(s[i], tag) THEN i
    ELSE RFindStart(s, tag, i - 1)

\* the least index >= i of an End(tag) event in s, 0 if there is none
RECURSIVE FFindEnd(_, _, _)
FFindEnd(s, tag, i) ==
    IF i > Len(s) THEN 0
    ELSE IF IsEnd(s[i], tag) THEN i
    ELSE FFindEnd(s, tag, i + 1)

---------------------------------------------------------------------------
(* slug::slugify, as TableOfContents calls it: ASCII letters are lowered,   *)
(* digits kept, every other character becomes a dash, a dash never follows *)
(* a dash nor opens the slug, and one trailing dash is dropped.            *)

SlugPush(s, slug, prev_is_dash) ==
    LET alnum(i) == s[i] \in Lower \cup Digit \cup Upper
        dashed(i) == IF i = 1 THEN prev_is_dash ELSE ~alnum(i - 1)
        push(i) == IF s[i] \in Lower \cup Digit THEN <<s[i]>>
                   ELSE IF s[i] \in Upper THEN <<ToLower(s[i])>>
                   ELSE IF ~dashed(i) THEN <<"-">>
                   ELSE <<>>
    IN  slug \o Concat([i \in 1..Len(s) |-> push(i)], 1, Len(s))

slugify_keep_trailing_dash(s) ==
    LET slug == SlugPush(s, <<>>, TRUE)
    IN  slug  \* a slugify that forgets to drop the trailing dash

slugify(s) ==
    LET slug == SlugPush(s, <<>>, TRUE)
    IN  IF slug # <<>> /\ slug[Len(slug)] = "-"
        THEN SubSeq(slug, 1, Len(slug) - 1)
        ELSE slug

---------------------------------------------------------------------------
(* url::Url::parse, as LinkRewriter calls it, reduced to its outcome:      *)
(*   "Host"    Ok, url.host() is Some                                      *)
(*   "NoHost"  Ok, url.host() is None                                      *)
(*   "RelativeUrlWithoutBase", "EmptyHost"   these ParseErrors             *)
(*   "Other"   any other ParseError (here: InvalidPort)                    *)
(* A scheme is a letter followed by letters, digits, '+', '-' or '.', up to *)
(* a ':'.  Without one the input is relative.  After http: or https: the   *)
(* slashes are skipped and the authority runs to the next '/', '?' or '#'; *)
(* an empty one is EmptyHost and a port that is not made of digits is      *)
(* InvalidPort.  After any other scheme the URL has a host only when an    *)
(* authority follows "//".                                                 *)

SchemeChar == Lower \cup Upper \cup Digit \cup {"+", "-", "."}

RECURSIVE SchemeEnd(_, _)
SchemeEnd(s, i) ==
    IF i > Len(s) THEN 0
    ELSE IF s[i] = ":" THEN i
    ELSE IF s[i] \in SchemeChar THEN SchemeEnd(s, i + 1)
    ELSE 0

RECURSIVE SkipSlashes(_)
SkipSlashes(s) ==
    IF s # <<>> /\ Head(s) \in {"/", "\\"} THEN SkipSlashes(Tail(s)) ELSE s

TakeAuthority(s) ==
    LET ends == {i \in 1..Len(s) : s[i] \in {"/", "?", "#"}}
    IN  IF ends = {} THEN s
        ELSE SubSeq(s, 1, (CHOOSE i \in ends : \A k \in ends : i <= k) - 1)

SpecialSchemes == {<<"h", "t", "t", "p">>, <<"h", "t", "t", "p", "s">>}

UrlParse(s) ==
    IF s = <<>> \/ Head(s) \notin Lower \cup Upper THEN "RelativeUrlWithoutBase"
    ELSE LET colon == SchemeEnd(s, 2) IN
         IF colon = 0 THEN "RelativeUrlWithoutBase"
         ELSE LET scheme == SubSeq(s, 1, colon - 1)
                  rest == Drop(s, colon)
                  special == scheme \in SpecialSchemes
                  auth == IF special THEN TakeAuthority(SkipSlashes(rest))
                          ELSE IF StartsWith(rest, <<"/", "/">>)
                               THEN TakeAuthority(Drop(rest, 2))
                               ELSE <<>>
                  p == Find(auth, ":")
                  host == IF p = 0 THEN auth ELSE SubSeq(auth, 1, p - 1)
                  port == IF p = 0 THEN <<>> ELSE Drop(auth, p)
              IN  IF special /\ host = <<>> THEN "EmptyHost"
                  ELSE IF \E i \in 1..Len(port) : port[i] \notin Digit THEN "Other"
                  ELSE IF host = <<>> THEN "NoHost"
                  ELSE "Host"

\* link_rewriter.rs is_in_local_domain with a host test that is inverted
is_in_local_domain_inverted(url_string) ==
    UrlParse(url_string) \in {"Host", "RelativeUrlWithoutBase", "EmptyHost"}

is_in_local_domain(url_string) ==
    LET r == UrlParse(url_string)
    IN  CASE r = "Host" -> FALSE
          [] r = "NoHost" -> TRUE
          [] r = "RelativeUrlWithoutBase" -> TRUE
          [] r = "EmptyHost" -> TRUE
          [] OTHER -> FALSE

RECURSIVE AppendPairs(_, _, _, _)
AppendPairs(appended, params, position, length) ==
    IF position > length THEN appended
    ELSE AppendPairs(appended \o params[position][1] \o <<"=">>
                        \o params[position][2]
                        \o (IF position # length THEN <<"&">> ELSE <<>>),
                     params, position + 1, length)

append_parameters(url, params) ==
    AppendPairs(url \o <<"?">>, params, 1, Len(params))

HasRule(rules, url) == \E r \in rules : r[1] = url
GetRule(rules, url) == (CHOOSE r \in rules : r[1] = url)[2]

\* rewrite_link that applies url_root to the mapped URL as well
rewrite_link_root_after_rule(rules, root, url) ==
    LET u == IF HasRule(rules, url) THEN GetRule(rules, url) ELSE url
    IN  IF StartsWith(u, <<"/">>) THEN TrimEndMatches(root, "/") \o u ELSE u

rewrite_link(rules, root, url) ==
    IF HasRule(rules, url) THEN GetRule(rules, url)
    ELSE IF StartsWith(url, <<"/">>) THEN TrimEndMatches(root, "/") \o url
    ELSE url

\* a classification that takes every parse error for a local path
Classify_errors_as_local(url) ==
    IF UrlParse(url) \in {"Host", "NoHost"} THEN Some(<<"Remote", url>>)
    ELSE Some(<<"Local", url>>)

\* the UrlType of a Link: <<"Remote" | "Local", the string>>, None when the
\* URL parses with neither
Classify(url) ==
    LET r == UrlParse(url)
    IN  IF r \in {"Host", "NoHost"} THEN Some(<<"Remote", url>>)
        ELSE IF r \in {"EmptyHost", "RelativeUrlWithoutBase"}
        THEN Some(<<"Local", url>>)
        ELSE None

---------------------------------------------------------------------------
(* callout.rs                                                              *)

CalloutTypes == <<"info", "notice", "success", "warn", "warning", "error">>

\* CalloutKind::try_from followed by Display
CalloutKind(word) ==
    CASE word = "info" -> "info"
      [] word = "notice" -> "info"
      [] word = "success" -> "success"
      [] word = "warning" -> "warning"
      [] word = "warn" -> "warning"
      [] word = "error" -> "error"

RECURSIVE JoinWords(_)
JoinWords(ws) ==
    IF ws = <<>> THEN <<>>
    ELSE IF Len(ws) = 1 THEN ws[1]
    ELSE ws[1] \o <<" ">> \o JoinWords(Tail(ws))

\* parse_callout: [panic |-> TRUE] when words.next().unwrap() finds no word,
\* else found, kind and title
parse_callout(text) ==
    LET words == split_whitespace(text) IN
    IF words = <<>>
    THEN [panic |-> TRUE, found |-> FALSE, kind |-> "", title |-> <<>>]
    ELSE LET first_word == Join(words[1])
             title == JoinWords(Tail(words))
         IN  IF \E i \in 1..Len(CalloutTypes) : CalloutTypes[i] = first_word
             THEN [panic |-> FALSE, found |-> TRUE,
                   kind |-> CalloutKind(first_word), title |-> title]
             ELSE [panic |-> FALSE, found |-> FALSE, kind |-> "", title |-> <<>>]

---------------------------------------------------------------------------
(* The state the extensions share and own, as one record:                  *)
(*   events   the buffer they borrow mutably                               *)
(*   tabgroup, tab   Tabs.current_tabgroup, Tabs.current_tab               *)
(*   link     LinkRewriter.current_link                                    *)
(*   heading  TableOfContents.current_heading                              *)
(* and what a process_event call returns:                                  *)
(*   st       the state after the call                                     *)
(*   some     whether the output is Some(..)                               *)
(*   evs, lnk, hd, blk   the Output::Event, Link, Heading and Block items  *)
(*   handled  the flag returned                                            *)
(*   panic    the call panicked (an unwrap() of None, an index out of      *)
(*            range)                                                       *)

Ret(st, some, evs, lnk, hd, blk, handled) ==
    [st |-> st, some |-> some, evs |-> evs, lnk |-> lnk, hd |-> hd,
     blk |-> blk, handled |-> handled, panic |-> FALSE]

Unhandled(st) == Ret(st, FALSE, <<>>, <<>>, <<>>, <<>>, FALSE)

Panicked(st) ==
    [st |-> st, some |-> FALSE, evs |-> <<>>, lnk |-> <<>>, hd |-> <<>>,
     blk |-> <<>>, handled |-> FALSE, panic |-> TRUE]

Blank == Html("")

\* the buffer with the events at positions from..to replaced by html!("")
BlankRange(evts, from, to) ==
    [i \in 1..Len(evts) |-> IF from <= i /\ i <= to THEN Blank ELSE evts[i]]

---------------------------------------------------------------------------
(* callout.rs: Callout                                                     *)

\* the text and code of evts[i..] up to the first End(Paragraph)
RECURSIVE CalloutTitle(_, _)
CalloutTitle(evts, i) ==
    IF i > Len(evts) \/ IsEnd(evts[i], "Paragraph") THEN <<>>
    ELSE (IF IsTextOrCode(evts[i]) THEN evts[i].s ELSE <<>>)
         \o CalloutTitle(evts, i + 1)

CalloutOpen(kind, title) ==
    IF title = <<>>
    THEN Html("<div class=\"callout " \o kind
              \o "\"><div class=\"callout-content\">")
    ELSE Html("<div class=\"callout " \o kind
              \o "\"><p class=\"callout-title\">" \o Join(title)
              \o "</p><div class=\"callout-content\">")

CalloutClose == Html("</div></div>")

Callout_process_event(st, event) ==
    IF ~IsEnd(event, "BlockQuote") THEN Unhandled(st)
    ELSE LET start == RFindStart(st.events, "BlockQuote", Len(st.events)) IN
         IF start = 0 THEN Panicked(st)
         ELSE LET callout_title == CalloutTitle(st.events, start + 1)
                  callout == parse_callout(callout_title)
                  stop == FFindEnd(st.events, "Paragraph", start + 1)
                  to == IF stop = 0 THEN Len(st.events) ELSE stop
              IN  IF callout.panic THEN Panicked(st)
                  ELSE IF ~callout.found THEN Unhandled(st)
                  ELSE Ret([st EXCEPT !.events =
                              [BlankRange(st.events, start + 1, to)
                                 EXCEPT ![start] =
                                   CalloutOpen(callout.kind, callout.title)]],
                           TRUE, <<CalloutClose>>, <<>>, <<>>, <<>>, TRUE)

---------------------------------------------------------------------------
(* mermaid.rs, math.rs.  MathBlock renders the block's body when the crate *)
(* is built with the feature katex or latex2mathml.                        *)

\* inner.split(' ').next().unwrap(): the characters before the first space
FirstToken(inner) ==
    LET sp == Find(inner, " ")
    IN  IF sp = 0 THEN inner ELSE SubSeq(inner, 1, sp - 1)

IsFenced(event, k) ==
    event.k = k /\ event.tag = "CodeBlock" /\ event.lt = "Fenced"

MermaidBlock_process_event(st, event) ==
    IF IsFenced(event, "Start") /\ Join(FirstToken(event.s)) = "mermaid"
    THEN Ret(st, TRUE, <<Html("<div class=\"mermaid\">\n")>>, <<>>, <<>>,
             <<"diagram">>, TRUE)
    ELSE IF IsFenced(event, "End") /\ Join(FirstToken(event.s)) = "mermaid"
    THEN Ret(st, TRUE, <<Html("</div>")>>, <<>>, <<>>, <<>>, TRUE)
    ELSE Unhandled(st)

\* the features of the crate that MathBlock is compiled under
MathFeatures == {"katex", "latex2mathml"}

\* LaTeX that the renderers reject: an unbalanced group
Str_open_brace == <<"{">>
InvalidLatex == {Str_open_brace}

\* katex::render_with_opts and latex2mathml::latex_to_mathml: Err on invalid
\* LaTeX, else the rendered markup
RenderFails(code) == code \in InvalidLatex
katex_render(code) == "<span class=\"katex-display\">" \o Join(code) \o "</span>"
latex_to_mathml(code) == "<math display=\"block\">" \o Join(code) \o "</math>"

\* math.rs, lines 29-46: the block compiled under the feature katex; the
\* result of the first render_with_opts is unwrapped
MathBlock_katex(st) ==
    IF st.events = <<>> THEN Panicked(st)
    ELSE LET code_event == st.events[Len(st.events)] IN
         IF code_event.k # "Text" THEN Unhandled(st)
         ELSE IF RenderFails(code_event.s) THEN Panicked(st)
         ELSE Unhandled([st EXCEPT !.events[Len(st.events)] =
                           Html(katex_render(code_event.s))])

\* math.rs, lines 48-62: the block compiled under the feature latex2mathml
MathBlock_latex2mathml(st) ==
    IF st.events = <<>> THEN Panicked(st)
    ELSE LET code_event == st.events[Len(st.events)] IN
         IF code_event.k # "Text" \/ RenderFails(code_event.s)
         THEN Unhandled(st)
         ELSE Unhandled([st EXCEPT !.events[Len(st.events)] =
                           Html(latex_to_mathml(code_event.s))])

\* math.rs, lines 28-65: End of a math block, r being the state the enabled
\* renderers have left
MathBlock_end(r) ==
    IF r.panic THEN r
    ELSE Ret(r.st, TRUE, <<Html("</div>")>>, <<>>, <<>>, <<>>, TRUE)

MathBlock_rendered(feats, r) ==
    IF r.panic \/ "latex2mathml" \notin feats THEN r
    ELSE MathBlock_latex2mathml(r.st)

MathBlock_process_event(feats, st, event) ==
    IF IsFenced(event, "Start") /\ Join(FirstToken(event.s)) = "math"
    THEN Ret(st, TRUE, <<Html("<div class=\"math\">\n")>>, <<>>, <<>>,
             <<"math">>, TRUE)
    ELSE IF IsFenced(event, "End") /\ Join(FirstToken(event.s)) = "math"
    THEN MathBlock_end(
             MathBlock_rendered(feats,
                 IF "katex" \in feats THEN MathBlock_katex(st)
                 ELSE Unhandled(st)))
    ELSE Unhandled(st)

---------------------------------------------------------------------------
(* tabs.rs: Tabs                                                           *)

TabPrefix == <<"#", "/", "t", "a", "b", "/">>

\* url.split("/").skip(2).next(): what follows "#/tab/" up to the next '/'
TabId(url) ==
    LET rest == Drop(url, Len(TabPrefix))
        sl == Find(rest, "/")
    IN  IF sl = 0 THEN rest ELSE SubSeq(rest, 1, sl - 1)

IsTabLink(event) ==
    /\ IsStart(event, "Link")
    /\ event.lt = "Inline"
    /\ StartsWith(event.url, TabPrefix)

TabGroupOpen == Html("<div class=\"tabgroup\">")
Placeholder == Html("<tabstrip/>")
DivClose == Html("</div>")

ActiveClass(is_active) == IF is_active THEN "active" ELSE ""

PanelOpen(is_active, id) ==
    Html("<div class=\"tab-panel " \o ActiveClass(is_active)
         \o "\" data-tab-id=\"" \o Join(id) \o "\">")

TabLabel(tab) ==
    Html("<label class=\"" \o ActiveClass(tab.is_active) \o "\" id=\""
         \o Join(tab.id) \o "\" title=\"" \o Join(tab.title)
         \o "\" role=\"tab\">" \o Join(tab.title) \o "</label>")

TabListOpen == Html("<ul class=\"tab-list\" role=\"tablist\">")
TabItemOpen == Html("<li class= role=\"presentation\">")
TabItemClose == Html("</li>")
TabListClose == Html("</ul>")

RECURSIVE TabItems(_)
TabItems(tabs) ==
    IF tabs = <<>> THEN <<>>
    ELSE <<TabItemOpen, TabLabel(Head(tabs)), TabItemClose>>
         \o TabItems(Tail(tabs))

TabList(tabs) == <<TabListOpen>> \o TabItems(tabs) \o <<TabListClose>>

\* close_tabgroup: events.splice(idx..idx + 1, tablist) with idx the
\* 0-based tabgroup.index + 1, and the two closing divs as output
close_tabgroup(evts, tabgroup) ==
    LET idx == tabgroup.index + 1
    IN  IF idx + 1 > Len(evts)
        THEN [panic |-> TRUE, events |-> evts, output |-> <<>>]
        ELSE [panic |-> FALSE,
              events |-> SubSeq(evts, 1, idx) \o TabList(tabgroup.tabs)
                         \o SubSeq(evts, idx + 2, Len(evts)),
              output |-> <<DivClose, DivClose>>]

\* the buffer after the reverse walk of End(Heading): from the end back to
\* the last Start(Heading), which is blanked too, every event that is not
\* Html is blanked
RECURSIVE BlankHeading(_, _)
BlankHeading(evts, i) ==
    IF i = 0 THEN evts
    ELSE IF IsStart(evts[i], "Heading") THEN [evts EXCEPT ![i] = Blank]
    ELSE IF evts[i].k = "Html" THEN BlankHeading(evts, i - 1)
    ELSE BlankHeading([evts EXCEPT ![i] = Blank], i - 1)

\* a Tabs that opens a group for every tab link
Tabs_start_link_always_opens(st, event) ==
    LET group == [index |-> Len(st.events), tabs |-> <<>>]
        tab == [id |-> TabId(event.url), title |-> <<>>, is_active |-> TRUE]
    IN  Ret([st EXCEPT !.tabgroup = Some(group), !.tab = Some(tab)],
            TRUE, <<TabGroupOpen, Placeholder, PanelOpen(TRUE, tab.id)>>,
            <<>>, <<>>, <<>>, TRUE)

Tabs_start_link(st, event) ==
    LET opens == ~IsSome(st.tabgroup)
        group == IF opens THEN [index |-> Len(st.events), tabs |-> <<>>]
                 ELSE Unwrap(st.tabgroup)
        is_active == group.tabs = <<>>
        tab == [id |-> TabId(event.url), title |-> <<>>,
                is_active |-> is_active]
        output == (IF opens THEN <<TabGroupOpen, Placeholder>> ELSE <<>>)
                  \o (IF ~is_active THEN <<DivClose>> ELSE <<>>)
                  \o <<PanelOpen(is_active, tab.id)>>
    IN  Ret([st EXCEPT !.tabgroup = Some(group), !.tab = Some(tab)],
            TRUE, output, <<>>, <<>>, <<>>, TRUE)

\* a Tabs that closes the markup of the group at a Rule but keeps the group
Tabs_rule_keeps_group(st) ==
    LET closed == close_tabgroup(st.events, Unwrap(st.tabgroup)) IN
    IF closed.panic THEN Panicked(st)
    ELSE Ret([st EXCEPT !.events = closed.events, !.tab = None],
             TRUE, closed.output, <<>>, <<>>, <<>>, TRUE)

Tabs_rule(st) ==
    LET closed == close_tabgroup(st.events, Unwrap(st.tabgroup)) IN
    IF closed.panic THEN Panicked(st)
    ELSE Ret([st EXCEPT !.events = closed.events, !.tabgroup = None,
                        !.tab = None],
             TRUE, closed.output, <<>>, <<>>, <<>>, TRUE)

\* a Tabs that pushes the tab and blanks the heading but reports the
\* End(Heading) unhandled
Tabs_end_heading_unhandled(st) ==
    LET group == Unwrap(st.tabgroup)
    IN  Ret([st EXCEPT
               !.tabgroup = Some([group EXCEPT
                                    !.tabs = Append(@, Unwrap(st.tab))]),
               !.tab = None,
               !.events = BlankHeading(st.events, Len(st.events))],
            FALSE, <<>>, <<>>, <<>>, <<>>, FALSE)

Tabs_end_heading(st) ==
    LET group == Unwrap(st.tabgroup)
    IN  Ret([st EXCEPT
               !.tabgroup = Some([group EXCEPT
                                    !.tabs = Append(@, Unwrap(st.tab))]),
               !.tab = None,
               !.events = BlankHeading(st.events, Len(st.events))],
            FALSE, <<>>, <<>>, <<>>, <<>>, TRUE)

Tabs_process_event(st, event) ==
    IF IsTabLink(event) THEN Tabs_start_link(st, event)
    ELSE IF event.k = "Rule" /\ IsSome(st.tabgroup) THEN Tabs_rule(st)
    ELSE IF IsEnd(event, "Heading") /\ IsSome(st.tabgroup) /\ IsSome(st.tab)
    THEN Tabs_end_heading(st)
    ELSE IF IsTextOrCode(event) /\ IsSome(st.tab)
    THEN Unhandled([st EXCEPT !.tab =
                      Some([Unwrap(st.tab) EXCEPT !.title = @ \o event.s])])
    ELSE Unhandled(st)

\* a Tabs whose end_of_doc is the trait's default: it closes nothing
Tabs_end_of_doc_default(st) ==
    [panic |-> FALSE, st |-> st, evs |-> <<>>]

Tabs_end_of_doc(st) ==
    IF IsSome(st.tabgroup)
    THEN LET closed == close_tabgroup(st.events, Unwrap(st.tabgroup)) IN
         [panic |-> closed.panic,
          st |-> [st EXCEPT !.events = closed.events, !.tabgroup = None,
                            !.tab = None],
          evs |-> closed.output]
    ELSE [panic |-> FALSE, st |-> st, evs |-> <<>>]

---------------------------------------------------------------------------
(* codeblock.rs: CodeBlock.  The syntax registry is syntect's; of it the   *)
(* model keeps which tokens name a syntax, and of the highlighter that it  *)
(* turns the code into markup.                                             *)

SyntaxTokens == {"rs", "ruby"}

find_syntax_by_token(token) == Join(token) \in SyntaxTokens

highlighted_html_for_string(code) == "<span>" \o Join(code) \o "</span>"

CodeBlock_process_event_any_token(st, event) ==
    IF IsFenced(event, "End")
    THEN IF st.events = <<>> THEN Panicked(st)
         ELSE LET code_event == st.events[Len(st.events)] IN
              IF code_event.k = "Text"
              THEN Ret([st EXCEPT !.events[Len(st.events)] =
                          Html(highlighted_html_for_string(code_event.s))],
                       TRUE, <<event>>, <<>>, <<>>, <<"code">>, TRUE)
              ELSE Unhandled(st)
    ELSE Unhandled(st)

CodeBlock_process_event(st, event) ==
    IF IsFenced(event, "End") /\ find_syntax_by_token(event.s)
    THEN IF st.events = <<>> THEN Panicked(st)
         ELSE LET code_event == st.events[Len(st.events)] IN
              IF code_event.k = "Text"
              THEN Ret([st EXCEPT !.events[Len(st.events)] =
                          Html(highlighted_html_for_string(code_event.s))],
                       TRUE, <<event>>, <<>>, <<>>, <<"code">>, TRUE)
              ELSE Unhandled(st)
    ELSE Unhandled(st)

---------------------------------------------------------------------------
(* link_rewriter.rs: LinkRewriter                                          *)

\* the href of a link: the rewritten URL, with the parameters when there
\* are some and the URL is local
LinkHref(rules, root, params, url) ==
    LET rewritten_url == rewrite_link(rules, root, url)
    IN  IF params # <<>> /\ is_in_local_domain(rewritten_url)
        THEN append_parameters(rewritten_url, params)
        ELSE rewritten_url

\* a LinkRewriter that tracks a link of any LinkType
LinkRewriter_start_link_any_type(rules, root, params, st, event) ==
    LET url == LinkHref(rules, root, params, event.url)
        valid_url == Classify(url)
    IN  Ret(IF IsSome(valid_url)
            THEN [st EXCEPT !.link = Some([title |-> event.title,
                                           url |-> Unwrap(valid_url)])]
            ELSE st,
            TRUE, <<StartLink(event.lt, url, event.title)>>,
            <<>>, <<>>, <<>>, TRUE)

LinkRewriter_start_link(rules, root, params, st, event) ==
    LET url == LinkHref(rules, root, params, event.url)
        valid_url == Classify(url)
    IN  Ret(IF event.lt = "Inline" /\ IsSome(valid_url)
            THEN [st EXCEPT !.link = Some([title |-> event.title,
                                           url |-> Unwrap(valid_url)])]
            ELSE st,
            TRUE, <<StartLink(event.lt, url, event.title)>>,
            <<>>, <<>>, <<>>, TRUE)

LinkRewriter_process_event(rules, root, params, st, event) ==
    IF IsStart(event, "Image")
    THEN Ret(st, TRUE,
             <<StartImage(event.lt, rewrite_link(rules, root, event.url),
                          event.title)>>,
             <<>>, <<>>, <<>>, TRUE)
    ELSE IF IsStart(event, "Link")
    THEN LinkRewriter_start_link(rules, root, params, st, event)
    ELSE IF IsEnd(event, "Link")
    THEN Ret([st EXCEPT !.link = None], TRUE, <<event>>,
             IF IsSome(st.link) THEN <<Unwrap(st.link)>> ELSE <<>>,
             <<>>, <<>>, TRUE)
    ELSE IF event.k = "Text" /\ IsSome(st.link)
    THEN Unhandled([st EXCEPT !.link =
                      Some([Unwrap(st.link) EXCEPT !.title = @ \o event.s])])
    ELSE Unhandled(st)

---------------------------------------------------------------------------
(* toc.rs: TableOfContents                                                 *)

HeadingOpen(level, anchor) ==
    Html("<h" \o ToString(level) \o " id=\"" \o Join(anchor) \o "\">")

TableOfContents_start_heading(st, event) ==
    Unhandled([st EXCEPT !.heading =
                 Some([level |-> event.lvl, anchor |-> <<>>, title |-> <<>>])])

TableOfContents_process_event(st, event) ==
    IF IsStart(event, "Heading") /\ event.lvl \in 1..6
    THEN TableOfContents_start_heading(st, event)
    ELSE IF IsEnd(event, "Heading")
    THEN IF ~IsSome(st.heading) THEN Panicked(st)
         ELSE LET heading == [Unwrap(st.heading) EXCEPT
                                !.anchor = slugify(Unwrap(st.heading).title)]
                  header_start ==
                      RFindStart(st.events, "Heading", Len(st.events))
              IN  IF header_start = 0
                  THEN Panicked([st EXCEPT !.heading = None])
                  ELSE Ret([st EXCEPT
                              !.heading = None,
                              !.events[header_start] =
                                  HeadingOpen(heading.level, heading.anchor)],
                           TRUE, <<event>>, <<>>, <<heading>>, <<>>, FALSE)
    ELSE IF IsTextOrCode(event) /\ IsSome(st.heading)
    THEN Unhandled([st EXCEPT !.heading =
                      Some([Unwrap(st.heading) EXCEPT !.title = @ \o event.s])])
    ELSE Unhandled(st)

---------------------------------------------------------------------------
(* task_list.rs: Tasklist                                                  *)

Tasklist_process_event(st, event) ==
    IF IsEnd(event, "List")
    THEN LET is_tasklist ==
                 \E i \in 1..Len(st.events) :
                     st.events[i].k = "TaskListMarker"
             start_index == RFindStart(st.events, "List", Len(st.events))
         IN  IF ~is_tasklist THEN Unhandled(st)
             ELSE IF start_index = 0 THEN Panicked(st)
             ELSE Unhandled([st EXCEPT !.events[start_index] =
                               Html("<ul class=\"checklist\">")])
    ELSE Unhandled(st)

---------------------------------------------------------------------------
(* emoji.rs: EmojiConverter.  Of the emojis crate the model keeps one      *)
(* shortcode; the emoji is one character of the text.                      *)

Shortcodes == {"smile"}
Emoji(shortcode) == "(smile emoji)"

\* a convert_emojis that resumes after the second colon of an unknown
\* candidate instead of at it
RECURSIVE convert_emojis_past_colon(_, _)
convert_emojis_past_colon(input, output) ==
    LET i == Find(input, ":")
        x == IF i = 0 THEN 0 ELSE Find(Drop(input, i), ":")
        n == i + x
    IN  IF i = 0 \/ x = 0 THEN output \o input
        ELSE LET shortcode == Join(SubSeq(input, i + 1, n - 1)) IN
             IF shortcode \in Shortcodes
             THEN convert_emojis_past_colon(Drop(input, n),
                                 output \o SubSeq(input, 1, i - 1)
                                        \o <<Emoji(shortcode)>>)
             ELSE convert_emojis_past_colon(Drop(input, n),
                                 output \o SubSeq(input, 1, n))

RECURSIVE convert_emojis(_, _)
convert_emojis(input, output) ==
    LET i == Find(input, ":")
        x == IF i = 0 THEN 0 ELSE Find(Drop(input, i), ":")
        n == i + x     \* the position of the second colon
    IN  IF i = 0 \/ x = 0 THEN output \o input
        ELSE LET shortcode == Join(SubSeq(input, i + 1, n - 1)) IN
             IF shortcode \in Shortcodes
             THEN convert_emojis(Drop(input, n),
                                 output \o SubSeq(input, 1, i - 1)
                                        \o <<Emoji(shortcode)>>)
             ELSE convert_emojis(Drop(input, n - 1),
                                 output \o SubSeq(input, 1, n - 1))

EmojiConverter_process_text(text) == convert_emojis(text, <<>>)

\* emoji.rs:16-19: the condition of the loop, a colon with another colon
\* after it
has_candidate(input) ==
    LET i == Find(input, ":") IN
    i # 0 /\ Find(Drop(input, i), ":") # 0

\* a loop body whose None arm writes the closing colon and resumes at it
convert_emojis_colon_twice(input, output) ==
    LET i == Find(input, ":")
        n == i + Find(Drop(input, i), ":")
        shortcode == Join(SubSeq(input, i + 1, n - 1))
    IN  IF shortcode \in Shortcodes
        THEN [input |-> Drop(input, n),
              output |-> output \o SubSeq(input, 1, i - 1)
                                \o <<Emoji(shortcode)>>]
        ELSE [input |-> Drop(input, n - 1),
              output |-> output \o SubSeq(input, 1, n)]

\* emoji.rs:21-36: the body of the loop for an input that holds two
\* colons; the input and the output after it
convert_emojis_iteration(input, output) ==
    LET i == Find(input, ":")
        n == i + Find(Drop(input, i), ":")   \* the position of the second colon
        shortcode == Join(SubSeq(input, i + 1, n - 1))
    IN  IF shortcode \in Shortcodes
        THEN [input |-> Drop(input, n),
              output |-> output \o SubSeq(input, 1, i - 1)
                                \o <<Emoji(shortcode)>>]
        ELSE [input |-> Drop(input, n - 1),
              output |-> output \o SubSeq(input, 1, n - 1)]

---------------------------------------------------------------------------
(* parser.rs: MarkdownParser                                               *)

\* MarkdownParser::new: the extensions in their registration order
Extensions ==
    <<"Callout", "MermaidBlock", "MathBlock", "Tabs", "CodeBlock",
      "LinkRewriter", "TableOfContents">>

\* extension.process_event(&mut events, &event), by dynamic dispatch
process_event(name, st, event) ==
    CASE name = "Callout" -> Callout_process_event(st, event)
      [] name = "MermaidBlock" -> MermaidBlock_process_event(st, event)
      [] name = "MathBlock" -> MathBlock_process_event(features, st, event)
      [] name = "Tabs" -> Tabs_process_event(st, event)
      [] name = "CodeBlock" -> CodeBlock_process_event(st, event)
      [] name = "LinkRewriter" ->
            LinkRewriter_process_event(link_rewrite_rules, url_root,
                                       url_params, st, event)
      [] name = "TableOfContents" -> TableOfContents_process_event(st, event)

\* extension.end_of_doc(&mut events): Tabs overrides the trait's default
end_of_doc(name, st) ==
    IF name = "Tabs" THEN Tabs_end_of_doc(st)
    ELSE [panic |-> FALSE, st |-> st, evs |-> <<>>]

\* handle_output: events, links and headings are pushed, anything else
\* (Output::Block, Output::None) is dropped
handle_output(acc, r) ==
    [acc EXCEPT !.st = [r.st EXCEPT !.events = @ \o r.evs],
                !.links = @ \o r.lnk,
                !.headings = @ \o r.hd,
                !.buf = r.st.events]   \* history: the buffer as r left it

\* parse, lines 115-122: one extension has been offered the event and has
\* returned r; its outputs are handled and its verdict is noted
offer(acc, name, r) ==
    IF r.panic
    THEN [acc EXCEPT !.panic = TRUE,
                     !.called = Append(@, [ext |-> name, handled |-> r.handled,
                                           evs |-> r.evs])]
    ELSE [handle_output(acc, r) EXCEPT
             !.called = Append(@, [ext |-> name, handled |-> r.handled,
                                   evs |-> r.evs]),
             !.handled = @ \/ r.handled]

\* the loop over the extensions without its break
RECURSIVE dispatch_no_break(_, _, _)
dispatch_no_break(i, acc, event) ==
    IF i > Len(Extensions) \/ acc.panic THEN acc
    ELSE dispatch_no_break(
             i + 1,
             offer(acc, Extensions[i],
                   process_event(Extensions[i], acc.st, event)),
             event)

\* parse, lines 113-123: the extensions from the i-th on are offered the
\* event until one handles it
RECURSIVE dispatch(_, _, _)
dispatch(i, acc, event) ==
    IF i > Len(Extensions) \/ acc.panic \/ acc.handled THEN acc
    ELSE dispatch(i + 1,
                  offer(acc, Extensions[i],
                        process_event(Extensions[i], acc.st, event)),
                  event)

\* parse, lines 131-132: one extension's end_of_doc has returned r
flush(acc, r) ==
    IF r.panic THEN [acc EXCEPT !.panic = TRUE]
    ELSE [acc EXCEPT !.st = [r.st EXCEPT !.events = @ \o r.evs]]

\* parse, lines 130-133
RECURSIVE finalize(_, _)
finalize(i, acc) ==
    IF i > Len(Extensions) \/ acc.panic THEN acc
    ELSE finalize(i + 1, flush(acc, end_of_doc(Extensions[i], acc.st)))

\* the extensions' state in the variables
CurrentState ==
    [events |-> events, tabgroup |-> current_tabgroup, tab |-> current_tab,
     link |-> current_link, heading |-> current_heading]

Acc0 ==
    [st |-> CurrentState, links |-> links, headings |-> headings,
     called |-> <<>>, handled |-> FALSE, panic |-> FALSE, buf |-> events]

\* parse, lines 102-111: the text processors
process_text(ev) ==
    IF ev.k = "Text" THEN Text(EmojiConverter_process_text(ev.s)) ELSE ev

\* parse, lines 125-127: an event no extension handled is pushed itself
push_unhandled(acc, event) ==
    [acc EXCEPT !.st.events = IF acc.panic \/ acc.handled THEN @
                              ELSE Append(@, event)]

\* an iteration that offers the extensions the raw event and runs the text
\* processors only on what is buffered
Iteration_raw_to_extensions(ev) ==
    push_unhandled(dispatch(1, Acc0, ev), process_text(ev))

\* one iteration of parse's loop, for the source event ev
Iteration(ev) ==
    push_unhandled(dispatch(1, Acc0, process_text(ev)), process_text(ev))

---------------------------------------------------------------------------
(* pulldown_cmark::html::push_html, as parse calls it on the buffer.  The  *)
(* document it writes is a sequence of characters.                         *)

\* the characters of a string of markup
Chars(str) == [i \in 1..Len(str) |-> SubSeq(str, i, i)]

\* pulldown_cmark::escape::escape_html
escape_html(s) ==
    LET esc(c) == CASE c = "<" -> <<"&", "l", "t", ";">>
                    [] c = ">" -> <<"&", "g", "t", ";">>
                    [] c = "&" -> <<"&", "a", "m", "p", ";">>
                    [] c = "\"" -> <<"&", "q", "u", "o", "t", ";">>
                    [] OTHER -> <<c>>
    IN  Concat([i \in 1..Len(s) |-> esc(s[i])], 1, Len(s))

\* pulldown_cmark::escape::escape_href, for the characters of the URLs
\* of the documents
escape_href(s) ==
    LET esc(c) == CASE c = "&" -> <<"&", "a", "m", "p", ";">>
                    [] c = "'" -> <<"&", "#", "x", "2", "7", ";">>
                    [] c = " " -> <<"%", "2", "0">>
                    [] c = "\"" -> <<"%", "2", "2">>
                    [] c = "<" -> <<"%", "3", "C">>
                    [] c = ">" -> <<"%", "3", "E">>
                    [] OTHER -> <<c>>
    IN  Concat([i \in 1..Len(s) |-> esc(s[i])], 1, Len(s))

\* the writes that open a block start a new line: HtmlWriter.end_newline
\* holds when nothing is written yet or the last write ended a line
fresh_line(out) ==
    IF out = <<>> \/ out[Len(out)] = "\n" THEN out ELSE Append(out, "\n")

HeadingLevel(l) ==
    CASE l = 1 -> "1" [] l = 2 -> "2" [] l = 3 -> "3" [] l = 4 -> "4"
      [] l = 5 -> "5" [] OTHER -> "6"

\* the language of a fenced code block: info.split(' ').next()
FenceLang(info) ==
    IF Find(info, " ") = 0 THEN info ELSE SubSeq(info, 1, Find(info, " ") - 1)

\* HtmlWriter::start_tag, but for images
start_tag(out, e) ==
    CASE e.tag = "Paragraph" -> fresh_line(out) \o Chars("<p>")
      [] e.tag = "Heading" ->
            fresh_line(out) \o <<"<", "h", HeadingLevel(e.lvl), ">">>
      [] e.tag = "BlockQuote" ->
            fresh_line(out) \o Chars("<blockquote>\n")
      [] e.tag = "CodeBlock" ->
            IF e.lt = "Fenced" /\ FenceLang(e.s) # <<>>
            THEN fresh_line(out) \o Chars("<pre><code class=\"language-")
                    \o escape_html(FenceLang(e.s)) \o Chars("\">")
            ELSE fresh_line(out) \o Chars("<pre><code>")
      [] e.tag = "List" -> fresh_line(out) \o Chars("<ul>\n")
      [] e.tag = "Item" -> fresh_line(out) \o Chars("<li>")
      [] e.tag = "Link" ->
            out \o Chars("<a href=\"")
                \o (IF e.lt = "Email" THEN Chars("mailto:") ELSE <<>>)
                \o escape_href(e.url)
                \o (IF e.title # <<>>
                    THEN Chars("\" title=\"") \o escape_html(e.title)
                    ELSE <<>>)
                \o Chars("\">")
      [] OTHER -> out

\* HtmlWriter::end_tag
end_tag(out, e) ==
    CASE e.tag = "Paragraph" -> out \o Chars("</p>\n")
      [] e.tag = "Heading" ->
            out \o <<"<", "/", "h", HeadingLevel(e.lvl), ">", "\n">>
      [] e.tag = "BlockQuote" -> out \o Chars("</blockquote>\n")
      [] e.tag = "CodeBlock" -> out \o Chars("</code></pre>\n")
      [] e.tag = "List" -> out \o Chars("</ul>\n")
      [] e.tag = "Item" -> out \o Chars("</li>\n")
      [] e.tag = "Link" -> out \o Chars("</a>")
      [] OTHER -> out

\* HtmlWriter::raw_text: the alt text of an image, from the events after
\* its Start up to its End at position i; nest counts the tags open inside
RECURSIVE raw_text(_, _, _, _)
raw_text(evts, i, nest, out) ==
    IF i > Len(evts) THEN [i |-> i, out |-> out]
    ELSE LET e == evts[i] IN
         CASE e.k = "Start" -> raw_text(evts, i + 1, nest + 1, out)
           [] e.k = "End" ->
                 IF nest = 0 THEN [i |-> i + 1, out |-> out]
                 ELSE raw_text(evts, i + 1, nest - 1, out)
           [] e.k = "Html" ->
                 raw_text(evts, i + 1, nest, out \o escape_html(Chars(e.s[1])))
           [] e.k \in {"Text", "Code"} ->
                 raw_text(evts, i + 1, nest, out \o escape_html(e.s))
           [] e.k = "TaskListMarker" ->
                 raw_text(evts, i + 1, nest,
                          out \o (IF e.lvl = 1 THEN Chars("[x]")
                                  ELSE Chars("[ ]")))
           [] OTHER -> raw_text(evts, i + 1, nest, out)

\* the tail of an image's markup, after the alt text
image_tail(out, e) ==
    out \o (IF e.title # <<>>
            THEN Chars("\" title=\"") \o escape_html(e.title)
            ELSE <<>>)
        \o Chars("\" />")

\* HtmlWriter::run, from the event at position i
RECURSIVE run(_, _, _)
run(evts, i, out) ==
    IF i > Len(evts) THEN out
    ELSE LET e == evts[i] IN
         CASE e.k = "Start" /\ e.tag = "Image" ->
                 run(evts,
                     raw_text(evts, i + 1, 0, <<>>).i,
                     image_tail(out \o Chars("<img src=\"")
                                    \o escape_href(e.url)
                                    \o Chars("\" alt=\"")
                                    \o raw_text(evts, i + 1, 0, <<>>).out,
                                e))
           [] e.k = "Start" -> run(evts, i + 1, start_tag(out, e))
           [] e.k = "End" -> run(evts, i + 1, end_tag(out, e))
           [] e.k = "Text" -> run(evts, i + 1, out \o escape_html(e.s))
           [] e.k = "Code" ->
                 run(evts, i + 1,
                     out \o Chars("<code>") \o escape_html(e.s)
                         \o Chars("</code>"))
           [] e.k = "Html" -> run(evts, i + 1, out \o Chars(e.s[1]))
           [] e.k = "Rule" ->
                 run(evts, i + 1, fresh_line(out) \o Chars("<hr />\n"))
           [] e.k = "TaskListMarker" ->
                 run(evts, i + 1,
                     out \o (IF e.lvl = 1
                             THEN Chars("<input disabled=\"\" type=\"checkbox\" checked=\"\"/>\n")
                             ELSE Chars("<input disabled=\"\" type=\"checkbox\"/>\n")))
           [] OTHER -> run(evts, i + 1, out)

push_html(evts) == run(evts, 1, <<>>)

---------------------------------------------------------------------------
(* ammonia::Builder::clean, as to_html configures it: html5ever tokenizes  *)
(* the document and builds the tree of a fragment, ammonia removes and     *)
(* unwraps elements and filters attributes, and the tree is written back.  *)
(* A token is a record:                                                    *)
(*   t      "start" | "end" | "text" | "comment"                           *)
(*   name   the tag name, lower case (a string)                            *)
(*   attrs  the attributes of a start tag: records n (name, a string)      *)
(*          and v (value, characters), the first of a name only            *)
(*   s      the characters of a text, character references decoded         *)

Tok(t, name, attrs, s) == [t |-> t, name |-> name, attrs |-> attrs, s |-> s]

LowerAll(s) == [i \in 1..Len(s) |-> ToLower(s[i])]

\* the least position in the set ps; none when the set is empty
FirstOf(ps, none) ==
    IF ps = {} THEN none ELSE CHOOSE j \in ps : \A k \in ps : j <= k

\* the first position at or after i where p occurs in h, letters compared
\* without case; 0 when there is none
FindSeq(h, p, i) ==
    FirstOf({j \in i..(Len(h) - Len(p) + 1) :
                LowerAll(SubSeq(h, j, j + Len(p) - 1)) = p}, 0)

\* the first position at or after i of a character of the set stop;
\* Len(h) + 1 when there is none
Until(h, stop, i) == FirstOf({j \in i..Len(h) : h[j] \in stop}, Len(h) + 1)

\* the first position at or after i of a character outside the set skip
Skip(h, skip, i) == FirstOf({j \in i..Len(h) : h[j] \notin skip}, Len(h) + 1)

\* the character references the tokenizer decodes, of those that the
\* writers of the documents produce
CharRefs ==
    {<<Chars("&lt;"), "<">>, <<Chars("&gt;"), ">">>, <<Chars("&amp;"), "&">>,
     <<Chars("&quot;"), "\"">>, <<Chars("&#x27;"), "'">>}

\* the text with its character references decoded: a reference gives its
\* character at the position where it starts and nothing at the others
Decode(s) ==
    LET RefsAt(j) ==
            {r \in CharRefs : StartsWith(SubSeq(s, j, Len(s)), r[1])}
        Inside(i) ==
            \E j \in {k \in (i - 5)..(i - 1) : k >= 1} :
                \E r \in RefsAt(j) : i < j + Len(r[1])
    IN  Concat([i \in 1..Len(s) |->
                   IF RefsAt(i) # {} THEN <<(CHOOSE r \in RefsAt(i) : TRUE)[2]>>
                   ELSE IF Inside(i) THEN <<>>
                   ELSE <<s[i]>>], 1, Len(s))

\* the tokenizer's attribute states, from position i inside a start tag:
\* the attributes and the position after the tag's '>', or eof when the
\* document ends inside the tag
RECURSIVE LexAttrs(_, _, _)
LexAttrs(h, i, attrs) ==
    LET HasAttr(as, n) == \E k \in 1..Len(as) : as[k].n = n
        a == Skip(h, Whitespace \cup {"/"}, i) IN
    IF a > Len(h) THEN [eof |-> TRUE, i |-> a, attrs |-> attrs]
    ELSE IF h[a] = ">" THEN [eof |-> FALSE, i |-> a + 1, attrs |-> attrs]
    ELSE LET b == Until(h, Whitespace \cup {"/", ">", "="}, a + 1)
             n == Join(LowerAll(SubSeq(h, a, b - 1)))
             c == Skip(h, Whitespace, b)
         IN  IF c > Len(h) THEN [eof |-> TRUE, i |-> c, attrs |-> attrs]
             ELSE IF h[c] # "="
             THEN LexAttrs(h, c,
                           IF HasAttr(attrs, n) THEN attrs
                           ELSE Append(attrs, [n |-> n, v |-> <<>>]))
             ELSE LET d == Skip(h, Whitespace, c + 1) IN
                  IF d > Len(h) THEN [eof |-> TRUE, i |-> d, attrs |-> attrs]
                  ELSE IF h[d] \in {"\"", "'"}
                  THEN LET e == Until(h, {h[d]}, d + 1) IN
                       IF e > Len(h)
                       THEN [eof |-> TRUE, i |-> e, attrs |-> attrs]
                       ELSE LexAttrs(h, e + 1,
                               IF HasAttr(attrs, n) THEN attrs
                               ELSE Append(attrs,
                                      [n |-> n,
                                       v |-> Decode(SubSeq(h, d + 1, e - 1))]))
                  ELSE LET e == Until(h, Whitespace \cup {">"}, d) IN
                       LexAttrs(h, e,
                               IF HasAttr(attrs, n) THEN attrs
                               ELSE Append(attrs,
                                      [n |-> n,
                                       v |-> Decode(SubSeq(h, d, e - 1))]))

\* the elements whose content the tokenizer reads as text up to their end
\* tag: RAWTEXT and script data, and RCDATA where references are decoded
RawTextTags == {"script", "style", "xmp", "iframe", "noembed", "noframes"}
RcdataTags == {"textarea", "title"}

\* the position where the content of the raw text element name, which
\* starts at i, ends: that of its end tag, or the end of the document
RECURSIVE RawTextEnd(_, _, _)
RawTextEnd(h, name, i) ==
    LET j == FindSeq(h, <<"<", "/">> \o Chars(name), i)
        k == j + 2 + Len(name)
    IN  IF j = 0 \/ k > Len(h) THEN Len(h) + 1
        ELSE IF h[k] \in Whitespace \cup {"/", ">"} THEN j
        ELSE RawTextEnd(h, name, j + 1)

\* a text is added to the text before it
AddText(acc, s) ==
    IF s = <<>> THEN acc
    ELSE IF acc # <<>> /\ acc[Len(acc)].t = "text"
    THEN [acc EXCEPT ![Len(acc)].s = @ \o s]
    ELSE Append(acc, Tok("text", "", <<>>, s))

\* one step of html5ever's tokenizer at position i: the position after
\* the token and the tokens with it added
Tokenizer_step(h, i, acc) ==
    IF h[i] # "<"
    THEN LET j == Until(h, {"<"}, i)
         IN  [i |-> j, acc |-> AddText(acc, Decode(SubSeq(h, i, j - 1)))]
    ELSE IF i = Len(h) THEN [i |-> i + 1, acc |-> AddText(acc, <<"<">>)]
    ELSE IF h[i + 1] \in Lower \cup Upper
    THEN LET b == Until(h, Whitespace \cup {"/", ">"}, i + 1)
             name == Join(LowerAll(SubSeq(h, i + 1, b - 1)))
             tag == LexAttrs(h, b, <<>>)
         IN  IF tag.eof THEN [i |-> Len(h) + 1, acc |-> acc]
             ELSE IF name \in RawTextTags \cup RcdataTags
             THEN LET e == RawTextEnd(h, name, tag.i)
                      body == SubSeq(h, tag.i, e - 1)
                  IN  [i |-> e,
                       acc |-> AddText(
                                 Append(acc, Tok("start", name, tag.attrs, <<>>)),
                                 IF name \in RcdataTags THEN Decode(body)
                                 ELSE body)]
             ELSE [i |-> tag.i,
                   acc |-> Append(acc, Tok("start", name, tag.attrs, <<>>))]
    ELSE IF h[i + 1] = "/" /\ i + 2 <= Len(h) /\ h[i + 2] \in Lower \cup Upper
    THEN LET b == Until(h, Whitespace \cup {"/", ">"}, i + 2)
             name == Join(LowerAll(SubSeq(h, i + 2, b - 1)))
             tag == LexAttrs(h, b, <<>>)
         IN  IF tag.eof THEN [i |-> Len(h) + 1, acc |-> acc]
             ELSE [i |-> tag.i,
                   acc |-> Append(acc, Tok("end", name, <<>>, <<>>))]
    ELSE IF h[i + 1] \in {"!", "?", "/"}
    THEN IF h[i + 1] = "/" /\ i + 2 <= Len(h) /\ h[i + 2] = ">"
         THEN [i |-> i + 3, acc |-> acc]
         ELSE IF h[i + 1] = "/" /\ i + 2 > Len(h)
         THEN [i |-> Len(h) + 1, acc |-> AddText(acc, <<"<", "/">>)]
         ELSE [i |-> Until(h, {">"}, i + 1) + 1,
               acc |-> Append(acc, Tok("comment", "", <<>>, <<>>))]
    ELSE [i |-> i + 1, acc |-> AddText(acc, <<"<">>)]

\* html5ever's tokenizer, from the position and the tokens of t
RECURSIVE Tokenize(_, _)
Tokenize(h, t) ==
    IF t.i > Len(h) THEN t.acc
    ELSE Tokenize(h, Tokenizer_step(h, t.i, t.acc))

\* the elements that have no content and no end tag
VoidTags ==
    {"area", "base", "basefont", "bgsound", "br", "col", "embed", "frame",
     "hr", "img", "input", "keygen", "link", "meta", "param", "source",
     "track", "wbr"}

HeadingTags == {"h1", "h2", "h3", "h4", "h5", "h6"}

\* the start tags that close an open p element
ClosePTags ==
    {"address", "article", "aside", "blockquote", "center", "details",
     "dialog", "dir", "div", "dl", "fieldset", "figcaption", "figure",
     "footer", "header", "hgroup", "main", "menu", "nav", "ol", "p",
     "section", "summary", "ul", "pre", "listing", "form", "li", "hr"}
    \cup HeadingTags

\* the elements that bound a scope
ScopeTags ==
    {"applet", "caption", "html", "table", "td", "th", "marquee", "object",
     "template"}

\* the elements of the category special
SpecialTags ==
    {"address", "applet", "area", "article", "aside", "base", "basefont",
     "bgsound", "blockquote", "body", "br", "button", "caption", "center",
     "col", "colgroup", "dd", "details", "dir", "div", "dl", "dt", "embed",
     "fieldset", "figcaption", "figure", "footer", "form", "frame",
     "frameset", "head", "header", "hgroup", "hr", "html", "iframe", "img",
     "input", "keygen", "li", "link", "listing", "main", "marquee", "menu",
     "meta", "nav", "noembed", "noframes", "noscript", "object", "ol", "p",
     "param", "plaintext", "pre", "script", "section", "select", "source",
     "style", "summary", "table", "tbody", "td", "template", "textarea",
     "tfoot", "th", "thead", "title", "tr", "track", "ul", "wbr", "xmp"}
    \cup HeadingTags

\* Builder::new(): the default tags, and those to_html adds (lines 173-191)
AllowedTags ==
    {"a", "abbr", "acronym", "area", "article", "aside", "b", "bdi", "bdo",
     "blockquote", "br", "caption", "center", "cite", "code", "col",
     "colgroup", "data", "dd", "del", "details", "dfn", "div", "dl", "dt",
     "em", "figcaption", "figure", "footer", "h1", "h2", "h3", "h4", "h5",
     "h6", "header", "hgroup", "hr", "i", "img", "ins", "kbd", "li", "map",
     "mark", "nav", "ol", "p", "pre", "q", "rp", "rt", "rtc", "ruby", "s",
     "samp", "small", "span", "strike", "strong", "sub", "summary", "sup",
     "table", "tbody", "td", "th", "thead", "time", "tr", "tt", "u", "ul",
     "var", "wbr"}
    \cup {"label", "input"}

\* Builder::new() cleans the content of script and style
CleanContentTags_default == {"script", "style"}

\* to_html, line 200: add_clean_content_tags
CleanContentTags == {"form", "script", "style"}

\* Builder::new(): generic_attributes
GenericAttributes == {"lang", "title"}

\* the attributes allowed on a tag: the defaults of the tags the documents
\* hold, and those to_html adds (lines 174-199)
TagAttributes(name) ==
    CASE name = "a" -> {"href", "hreflang"}
      [] name = "img" -> {"align", "alt", "height", "src", "width"}
      [] name = "blockquote" -> {"cite"}
      [] name = "ol" -> {"start"}
      [] name \in HeadingTags -> {"id"}
      [] name \in {"code", "p", "span"} -> {"class"}
      [] name = "label" -> {"id", "role"}
      [] name = "div" -> {"id", "data-tab-title", "data-tab-id"}
      [] name \in {"ul", "li"} -> {"role"}
      [] OTHER -> {}

\* to_html, lines 192-194: the values allowed for an attribute of a tag
TagAttributeValues(name, n) ==
    IF name = "input" /\ n \in {"disabled", "checked"} THEN {<<>>}
    ELSE IF name = "input" /\ n = "type" THEN {Chars("checkbox")}
    ELSE {}

\* to_html, lines 147-169: allowed_classes
HasAllowedClasses(name) == name \in {"div", "label"}

AllowedClasses(name) ==
    IF name = "div"
    THEN {Chars("mermaid"), Chars("math"), Chars("callout"),
          Chars("callout-title"), Chars("info"), Chars("success"),
          Chars("warning"), Chars("error"), Chars("tabgroup"), Chars("tab"),
          Chars("tab-panel"), Chars("active")}
    ELSE IF name = "label" THEN {Chars("active")}
    ELSE {}

\* Builder::new(): url_schemes
UrlSchemes ==
    {Chars("bitcoin"), Chars("ftp"), Chars("ftps"), Chars("geo"),
     Chars("http"), Chars("https"), Chars("im"), Chars("irc"), Chars("ircs"),
     Chars("magnet"), Chars("mailto"), Chars("mms"), Chars("mx"),
     Chars("news"), Chars("nntp"), Chars("openpgp4fpr"), Chars("sip"),
     Chars("sms"), Chars("smsto"), Chars("ssh"), Chars("tel"), Chars("url"),
     Chars("webcal"), Chars("wtai"), Chars("xmpp")}

\* ammonia's is_url_attr
is_url_attr(name, n) ==
    \/ n \in {"href", "src"}
    \/ name \in {"blockquote", "q", "del", "ins"} /\ n = "cite"

\* a URL attribute is kept when its scheme is allowed, or when it is
\* relative (UrlRelative::PassThrough)
UrlAllowed(v) ==
    LET r == UrlParse(v) IN
    IF r \in {"Host", "NoHost"}
    THEN LowerAll(SubSeq(v, 1, SchemeEnd(v, 2) - 1)) \in UrlSchemes
    ELSE r = "RelativeUrlWithoutBase"

\* the classes of a class attribute that are allowed on the tag, joined by
\* single spaces
FilterClasses(name, v) ==
    JoinWords(SelectSeq(split_whitespace(v),
                        LAMBDA c : c \in AllowedClasses(name)))

\* the attribute filter of Builder::clean for an element that is kept
AttrKept(name, a) ==
    IF \/ a.n \in GenericAttributes
       \/ a.n \in TagAttributes(name)
       \/ LowerAll(a.v) \in TagAttributeValues(name, a.n)
    THEN is_url_attr(name, a.n) => UrlAllowed(a.v)
    ELSE a.n = "class" /\ HasAllowedClasses(name)

RECURSIVE FilterAttrs(_, _)
FilterAttrs(name, attrs) ==
    IF attrs = <<>> THEN <<>>
    ELSE LET a == Head(attrs) IN
         (IF ~AttrKept(name, a) THEN <<>>
          ELSE IF a.n = "class" /\ HasAllowedClasses(name)
          THEN <<[a EXCEPT !.v = FilterClasses(name, a.v)]>>
          ELSE <<a>>) \o FilterAttrs(name, Tail(attrs))

\* html5ever's serializer: the escaping of an attribute value and of text
escape_attr(s) ==
    LET esc(c) == CASE c = "&" -> Chars("&amp;")
                    [] c = "\"" -> Chars("&quot;")
                    [] OTHER -> <<c>>
    IN  Concat([i \in 1..Len(s) |-> esc(s[i])], 1, Len(s))

escape_text(s) ==
    LET esc(c) == CASE c = "&" -> Chars("&amp;")
                    [] c = "<" -> Chars("&lt;")
                    [] c = ">" -> Chars("&gt;")
                    [] OTHER -> <<c>>
    IN  Concat([i \in 1..Len(s) |-> esc(s[i])], 1, Len(s))

RECURSIVE WriteAttrs(_)
WriteAttrs(attrs) ==
    IF attrs = <<>> THEN <<>>
    ELSE <<" ">> \o Chars(Head(attrs).n) \o Chars("=\"")
            \o escape_attr(Head(attrs).v) \o <<"\"">>
            \o WriteAttrs(Tail(attrs))

WriteStart(name, attrs) ==
    <<"<">> \o Chars(name) \o WriteAttrs(FilterAttrs(name, attrs)) \o <<">">>

WriteEnd(name) == <<"<", "/">> \o Chars(name) \o <<">">>

\* The tree builder and ammonia's pass over the tree, run together over
\* the tokens.  The state:
\*   open   the stack of open elements, the fragment's root left out:
\*          records name and mode, "keep" for an allowed element, "unwrap"
\*          for one whose children take its place, "remove" for one that
\*          goes with its content (and for every element inside one)
\*   form   the form element pointer is set
\*   out    the characters written for what is kept, in document order
\* Tables, the formatting elements' adoption agency and the line feed
\* after <pre> are left out: the documents hold none of them.

InRemoved(b) == b.open # <<>> /\ b.open[Len(b.open)].mode = "remove"

ModeOf(b, name) ==
    IF InRemoved(b) \/ name \in CleanContentTags THEN "remove"
    ELSE IF name \in AllowedTags THEN "keep"
    ELSE "unwrap"

\* insert an HTML element for a start tag
InsertElement(b, tok) ==
    LET mode == ModeOf(b, tok.name) IN
    [b EXCEPT !.out = IF mode = "keep" THEN @ \o WriteStart(tok.name, tok.attrs)
                      ELSE @,
              !.open = IF tok.name \in VoidTags THEN @
                       ELSE Append(@, [name |-> tok.name, mode |-> mode])]

\* pop the elements from the top of the stack down to position k
RECURSIVE PopTo(_, _)
PopTo(b, k) ==
    IF Len(b.open) < k \/ b.open = <<>> THEN b
    ELSE PopTo([b EXCEPT !.out = IF b.open[Len(b.open)].mode = "keep"
                                 THEN @ \o WriteEnd(b.open[Len(b.open)].name)
                                 ELSE @,
                         !.open = SubSeq(@, 1, Len(@) - 1)],
               k)

\* the position of the topmost element with a name in names that is in
\* the scope bounded by bound, looking down from position j; 0 when there
\* is none
RECURSIVE ScopeIndex(_, _, _, _)
ScopeIndex(open, names, bound, j) ==
    IF j = 0 THEN 0
    ELSE IF open[j].name \in names THEN j
    ELSE IF open[j].name \in bound THEN 0
    ELSE ScopeIndex(open, names, bound, j - 1)

\* the scope of a button: ScopeTags and button
ButtonScope == ScopeTags \cup {"button"}

\* pop down to the topmost element named in names, when one is in the
\* scope bounded by bound
PopInScope(b, names, bound) ==
    IF ScopeIndex(b.open, names, bound, Len(b.open)) = 0 THEN b
    ELSE PopTo(b, ScopeIndex(b.open, names, bound, Len(b.open)))

\* close a p element, when one is in button scope
ClosePElement(b) == PopInScope(b, {"p"}, ButtonScope)

\* a start tag "li" closes the li it finds before a special element other
\* than address, div and p
CloseListItem(b) ==
    PopInScope(b, {"li"}, SpecialTags \ {"address", "div", "p", "li"})

\* the rules of the insertion mode "in body" for a start tag
StartTagInBody(b, tok) ==
    CASE tok.name \in HeadingTags ->
            \* a heading that is the current node is popped
            InsertElement(
                IF ClosePElement(b).open # <<>>
                   /\ ClosePElement(b).open[Len(ClosePElement(b).open)].name
                         \in HeadingTags
                THEN PopTo(ClosePElement(b), Len(ClosePElement(b).open))
                ELSE ClosePElement(b),
                tok)
      [] tok.name = "form" ->
            IF b.form THEN b
            ELSE [InsertElement(ClosePElement(b), tok) EXCEPT !.form = TRUE]
      [] tok.name = "li" ->
            InsertElement(ClosePElement(CloseListItem(b)), tok)
      [] tok.name \in ClosePTags \ (HeadingTags \cup {"form", "li"}) ->
            InsertElement(ClosePElement(b), tok)
      [] OTHER -> InsertElement(b, tok)

\* the end tags that pop the element they name when it is in scope
ScopedEndTags ==
    {"address", "article", "aside", "blockquote", "button", "center",
     "details", "dialog", "dir", "div", "dl", "fieldset", "figcaption",
     "figure", "footer", "header", "hgroup", "listing", "main", "menu",
     "nav", "ol", "pre", "section", "summary", "ul", "dd", "dt", "applet",
     "marquee", "object"}

\* "any other end tag": the topmost element of the name is popped with
\* those above it, unless a special element is met first
RECURSIVE AnyOtherEndTag(_, _, _)
AnyOtherEndTag(b, name, j) ==
    IF j = 0 THEN b
    ELSE IF b.open[j].name = name THEN PopTo(b, j)
    ELSE IF b.open[j].name \in SpecialTags THEN b
    ELSE AnyOtherEndTag(b, name, j - 1)

\* the rules of the insertion mode "in body" for an end tag
EndTagInBody(b, name) ==
    CASE name = "p" ->
            IF ScopeIndex(b.open, {"p"}, ButtonScope, Len(b.open)) = 0
            THEN PopTo(InsertElement(b, Tok("start", "p", <<>>, <<>>)),
                       Len(b.open) + 1)
            ELSE ClosePElement(b)
      [] name \in HeadingTags -> PopInScope(b, HeadingTags, ScopeTags)
      [] name = "li" -> PopInScope(b, {"li"}, ScopeTags \cup {"ol", "ul"})
      [] name = "form" ->
            IF ~b.form \/ ScopeIndex(b.open, {"form"}, ScopeTags,
                                     Len(b.open)) = 0
            THEN [b EXCEPT !.form = FALSE]
            ELSE LET k == ScopeIndex(b.open, {"form"}, ScopeTags,
                                     Len(b.open))
                 IN  [b EXCEPT !.form = FALSE,
                               !.open = SubSeq(@, 1, k - 1)
                                           \o SubSeq(@, k + 1, Len(@))]
      [] name = "br" -> InsertElement(b, Tok("start", "br", <<>>, <<>>))
      [] name \in {"body", "html"} -> b
      [] name \in ScopedEndTags -> PopInScope(b, {name}, ScopeTags)
      [] OTHER -> AnyOtherEndTag(b, name, Len(b.open))

TreeStep(b, tok) ==
    CASE tok.t = "start" -> StartTagInBody(b, tok)
      [] tok.t = "end" -> EndTagInBody(b, tok.name)
      [] tok.t = "text" ->
            IF InRemoved(b) THEN b
            ELSE [b EXCEPT !.out = @ \o escape_text(tok.s)]
      [] OTHER -> b      \* comments are stripped

\* the tree builder over the tokens, from the position and the builder of r
RECURSIVE TreeRun(_, _)
TreeRun(toks, r) ==
    IF r.i > Len(toks) THEN PopTo(r.b, 1)
    ELSE TreeRun(toks, [i |-> r.i + 1, b |-> TreeStep(r.b, toks[r.i])])

\* parser.rs to_html: ammonia::Builder::clean(..).to_string(), from the
\* empty stack and the empty output
to_html(html) ==
    TreeRun(Tokenize(html, [i |-> 1, acc |-> <<>>]),
            [i |-> 1, b |-> [open |-> <<>>, form |-> FALSE, out |-> <<>>]]).out

---------------------------------------------------------------------------
(* The event source: pulldown_cmark::Parser.  The documents are the        *)
(* well-nested event streams over the events of the run's scenario.        *)

Str_a == <<"a">>
Str_T == <<"T">>
Str_info_t == <<"i", "n", "f", "o", " ", "t">>
Url_abs == <<"/", "a">>
Url_rel == <<"r">>
Url_tab_a == TabPrefix \o <<"a">>
Url_tab_b == TabPrefix \o <<"b">>
Url_remote == <<"h", "t", "t", "p", ":", "/", "/", "x">>
Url_empty_host == <<"h", "t", "t", "p", ":", "/", "/">>
Url_mailto == <<"m", "a", "i", "l", "t", "o", ":", "x">>
Url_bad_port == <<"h", "t", "t", "p", ":", "/", "/", "x", ":", "p">>
Url_mapped == <<"/", "m">>

RewriteUrls ==
    {Url_abs, Url_rel, Url_remote, Url_empty_host, Url_mailto, Url_bad_port,
     Url_mapped}

\* the scenarios of callout documents, one for each callout keyword
CalloutScenarios ==
    {"callout info", "callout notice", "callout success", "callout warning",
     "callout warn", "callout error"}

\* the keyword of a callout scenario
CalloutWord(sc) ==
    CASE sc = "callout info" -> <<"i", "n", "f", "o">>
      [] sc = "callout notice" -> <<"n", "o", "t", "i", "c", "e">>
      [] sc = "callout success" -> <<"s", "u", "c", "c", "e", "s", "s">>
      [] sc = "callout warning" -> <<"w", "a", "r", "n", "i", "n", "g">>
      [] sc = "callout warn" -> <<"w", "a", "r", "n">>
      [] sc = "callout error" -> <<"e", "r", "r", "o", "r">>

\* the words after the keyword of a title line, with an irregular gap
Str_x_y == <<" ", "x", " ", " ", "y">>
Str_in == <<"i", "n">>
Str_fo == <<"f", "o">>

\* info strings of fenced code blocks
Info_mermaid == <<"m", "e", "r", "m", "a", "i", "d">>
Info_math == <<"m", "a", "t", "h">>
Info_math_x == <<"m", "a", "t", "h", " ", "x">>
Info_rs == <<"r", "s">>
Info_rs_x == <<"r", "s", " ", "x">>

Title_My_Heading == <<"M", "y", " ", "H", "e", "a", "d", "i", "n", "g">>
Title_my_heading == <<"m", "y", " ", "h", "e", "a", "d", "i", "n", "g">>
Title_my == <<"m", "y">>
Title_bang == <<"m", "y", "!">>

Str_x == <<"x">>

\* texts with colons: a known shortcode, an unknown one, an unterminated
\* one, an unknown one that shares its closing colon with a known one, and
\* a callout title line
Str_smile == <<":", "s", "m", "i", "l", "e", ":">>
Str_unknown == <<":", "x", ":">>
Str_unterminated == <<":", "s", "m", "i", "l", "e">>
Str_x_smile == <<":", "x", ":", "s", "m", "i", "l", "e", ":">>
Str_info_smile == <<"i", "n", "f", "o", " ">> \o Str_smile
\* the title attribute of a link, as in [a](/a "tip")
Title_tip == <<"t", "i", "p">>

\* raw HTML of the source: the tags that open an HTML block, and every tag
\* and text that a line of raw HTML may hold
BlockTagChunks == {"<script>", "<style>", "<form>", "<p>"}
HtmlChunks ==
    BlockTagChunks
    \cup {"</script>", "</form>", "<custom>", "</custom>", "<object>",
          "</object>"}

\* the bound on the events of a document
Limit(sc) ==
    CASE sc = "general" -> MaxEvents
      [] sc = "links" -> MaxLinkEvents
      [] sc = "rewrite" -> MaxRewriteEvents
      [] sc = "tabs" -> MaxTabEvents
      [] sc = "headings" -> MaxHeadingEvents
      [] sc \in CalloutScenarios -> MaxCalloutEvents
      [] sc = "nested" -> MaxNestedEvents
      [] sc = "code" -> MaxCodeEvents
      [] sc = "html" -> MaxHtmlEvents
      [] sc = "tasks" -> MaxTaskEvents
      [] sc = "emoji" -> MaxEmojiEvents
      [] sc = "titles" -> MaxTitleEvents
      [] sc = "tasklist" -> MaxTasklistEvents

\* the block-level events that may open in a scenario
BlockStarts(sc) ==
    CASE sc = "general" ->
            {Start("Paragraph"), StartHeading(1), Start("BlockQuote"), Rule}
      [] sc \in {"links", "rewrite"} -> {Start("Paragraph")}
      [] sc = "tabs" -> {StartHeading(2), Rule, Start("Paragraph")}
      [] sc = "headings" -> {StartHeading(2)}
      [] sc \in CalloutScenarios -> {Start("BlockQuote"), Start("Paragraph")}
      [] sc = "nested" -> {Start("BlockQuote"), StartHeading(1)}
      [] sc = "code" ->
            {StartCodeBlock("Fenced", i) :
                i \in {Info_mermaid, Info_math, Info_math_x, Info_rs,
                       Info_rs_x, Str_a}}
            \cup {StartCodeBlock("Indented", <<>>)}
      [] sc = "html" ->
            {Start("Paragraph")} \cup {Html(h) : h \in HtmlChunks}
      [] sc = "tasks" -> {Start("List")}
      [] sc = "emoji" ->
            {Start("Paragraph"), StartHeading(2), Start("BlockQuote")}
      [] sc = "titles" -> {Start("Paragraph")}
      [] sc = "tasklist" -> {Start("List")}

TextEvents(sc) ==
    CASE sc = "general" -> {Text(Str_info_t), Text(Str_a)}
      [] sc \in {"links", "rewrite"} -> {Text(Str_a)}
      [] sc = "tabs" -> {Text(Str_T)}
      [] sc = "headings" ->
            {Text(Title_My_Heading), Text(Title_my_heading), Text(Title_bang),
             Code(Title_my)}
      [] sc \in CalloutScenarios ->
            {Text(CalloutWord(sc)), Text(CalloutWord(sc) \o Str_x_y),
             Text(Str_a)}
      [] sc = "nested" -> {Text(Str_in), Text(Str_fo)}
      [] sc = "code" -> {Text(Str_a), Text(Str_open_brace)}
      [] sc = "html" -> {Text(Str_x)} \cup {Html(h) : h \in HtmlChunks}
      [] sc = "tasks" -> {Text(Str_a)}
      [] sc = "emoji" ->
            {Text(Str_smile), Text(Str_unknown), Text(Str_unterminated),
             Text(Str_x_smile), Text(Str_info_smile), Text(Str_a),
             Code(Str_smile)}
      [] sc = "titles" -> {Text(Str_a), Text(Str_smile), Code(Str_T)}
      [] sc = "tasklist" -> {Text(Str_a)}

LinkStarts(sc) ==
    CASE sc = "general" -> {StartLink("Inline", Url_tab_a, <<>>)}
      [] sc = "links" ->
            {StartLink("Inline", u, <<>>) :
                u \in {Url_abs, Url_tab_a, Url_remote, Url_bad_port}}
            \cup {StartLink("Reference", Url_abs, <<>>),
                  StartLink("Autolink", Url_remote, <<>>),
                  StartImage("Inline", Url_abs, <<>>)}
      [] sc = "rewrite" ->
            {StartLink("Inline", u, <<>>) : u \in RewriteUrls}
            \cup {StartImage("Inline", u, <<>>) : u \in RewriteUrls}
      [] sc = "tabs" ->
            {StartLink("Inline", Url_tab_a, <<>>),
             StartLink("Inline", Url_tab_b, <<>>)}
      [] sc = "headings" -> {}
      [] sc \in CalloutScenarios -> {}
      [] sc = "nested" -> {}
      [] sc = "code" -> {}
      [] sc = "html" -> {}
      [] sc = "tasks" -> {}
      [] sc = "emoji" ->
            {StartLink("Inline", Url_abs, <<>>),
             StartLink("Inline", Url_tab_a, <<>>)}
      [] sc = "titles" ->
            {StartLink("Inline", Url_abs, <<>>),
             StartLink("Inline", Url_abs, Title_tip)}
      [] sc = "tasklist" -> {}

\* the inline markup that may open inside a link
InlineStarts(sc) ==
    IF sc = "titles"
    THEN {Start("Strong"), StartImage("Inline", Url_rel, <<>>)}
    ELSE {}

\* a line of text inside an HTML block, which only follows raw HTML
HtmlBlockText(sc, stk, prev) ==
    IF sc = "html" /\ stk = <<>> /\ prev # <<>> /\ prev[Len(prev)].k = "Html"
    THEN {Html("x")}
    ELSE {}

\* a line that opens with the tag of an HTML block is not a paragraph's
ParagraphOpeners(sc) ==
    (TextEvents(sc) \cup LinkStarts(sc)) \ {Html(h) : h \in BlockTagChunks}

\* the events the source may produce next
NextEvents(sc, stk, prev) ==
    LET top == IF stk = <<>> THEN "Doc" ELSE stk[Len(stk)].tag
        room == Len(prev) < Limit(sc)
        closes == IF stk = <<>> THEN {}
                  ELSE IF top = "Paragraph" /\ IsStart(prev[Len(prev)], "Paragraph")
                  THEN {}      \* a paragraph is never empty
                  ELSE IF top = "Paragraph" /\ prev[Len(prev)].k = "Html"
                          /\ IsStart(prev[Len(prev) - 1], "Paragraph")
                  THEN {}      \* a tag alone on its line is an HTML block
                  ELSE IF top = "List" /\ IsStart(prev[Len(prev)], "List")
                  THEN {}      \* a list is never empty
                  ELSE {Closing(stk[Len(stk)])}
        opens == IF ~room THEN {}
                 ELSE IF top \in {"Doc", "BlockQuote"}
                 THEN BlockStarts(sc) \cup HtmlBlockText(sc, stk, prev)
                 ELSE IF top = "Paragraph" /\ IsStart(prev[Len(prev)], "Paragraph")
                 THEN ParagraphOpeners(sc)
                 ELSE IF top \in {"Paragraph", "Heading"}
                 THEN TextEvents(sc) \cup LinkStarts(sc)
                 ELSE IF top = "List" THEN {Start("Item")}
                 ELSE IF top = "Item"
                 THEN IF IsStart(prev[Len(prev)], "Item")
                      THEN {TaskListMarker(TRUE), TaskListMarker(FALSE)}
                           \cup TextEvents(sc)
                      ELSE TextEvents(sc) \cup BlockStarts(sc)
                 ELSE IF top = "Link" THEN TextEvents(sc) \cup InlineStarts(sc)
                 ELSE TextEvents(sc)      \* inside an image or inline markup
    IN  closes \cup opens

Push(stk, ev) ==
    IF ev.k = "Start" THEN Append(stk, ev)
    ELSE IF ev.k = "End" THEN SubSeq(stk, 1, Len(stk) - 1)
    ELSE stk

---------------------------------------------------------------------------
(* The state machine.                                                      *)

\* a build without the optional features
DefaultBuild == features = {}

DefaultOptions ==
    /\ url_root = <<"/">>
    /\ link_rewrite_rules = {}
    /\ url_params = <<>>

InitLocals ==
    /\ src = <<>>
    /\ stack = <<>>
    /\ events = <<>>
    /\ links = <<>>
    /\ headings = <<>>
    /\ current_tabgroup = None
    /\ current_tab = None
    /\ current_link = None
    /\ current_heading = None
    /\ last = None
    /\ pc = "parsing"

\* the static before its first use: OnceCell::new()
InitStatics == SYNTAX_SET = [state |-> "Incomplete", value |-> None]

\* one parser instance, on this thread; MarkdownParser::new has loaded the
\* SyntaxSet of its CodeBlock (parser.rs:69)
InitParse ==
    InitLocals /\ InitStatics /\ loaded = 1 /\ parsers = <<>> /\ convert = None

Init ==
    scenario = "general" /\ DefaultBuild /\ DefaultOptions /\ InitParse

InitTabs ==
    scenario = "tabs" /\ DefaultBuild /\ DefaultOptions /\ InitParse

InitHeadings ==
    scenario = "headings" /\ DefaultBuild /\ DefaultOptions /\ InitParse

InitCallout ==
    scenario \in CalloutScenarios /\ DefaultBuild /\ DefaultOptions /\ InitParse

InitNested ==
    scenario = "nested" /\ DefaultBuild /\ DefaultOptions /\ InitParse

InitHtml ==
    scenario = "html" /\ DefaultBuild /\ DefaultOptions /\ InitParse

InitTasks ==
    scenario = "tasks" /\ DefaultBuild /\ DefaultOptions /\ InitParse

InitEmoji ==
    scenario = "emoji" /\ DefaultBuild /\ DefaultOptions /\ InitParse

InitTitles ==
    scenario = "titles" /\ DefaultBuild /\ DefaultOptions /\ InitParse

InitCode ==
    /\ scenario = "code"
    /\ features \in SUBSET MathFeatures
    /\ DefaultOptions
    /\ InitParse

Param_k_v == <<<<"k">>, <<"v">>>>
Param_j_w == <<<<"j">>, <<"w">>>>

InitLinks ==
    /\ scenario = "links"
    /\ DefaultBuild
    /\ url_root = <<"/", "r">>
    /\ link_rewrite_rules = {}
    /\ url_params \in {<<>>, <<Param_k_v>>}
    /\ InitParse

InitRewrite ==
    /\ scenario = "rewrite"
    /\ DefaultBuild
    /\ url_root \in {<<"/">>, <<"/", "r">>, <<"/", "r", "/">>, <<>>}
    /\ link_rewrite_rules \in {{}, {<<Url_abs, Url_mapped>>},
                                {<<Url_rel, Url_remote>>}}
    /\ url_params \in {<<>>, <<Param_k_v>>, <<Param_k_v, Param_j_w>>}
    /\ InitParse

\* codeblock.rs:21-22: the event reached CodeBlock, none of the extensions
\* before it having handled it, and is the End of a fenced code block
reaches_get_or_init(called, ev) ==
    /\ IsFenced(ev, "End")
    /\ \E i \in 1..Len(called) : called[i].ext = "CodeBlock"

\* parse, lines 99-128: the source yields ev and the loop body runs on it
ParseEvent ==
    /\ pc = "parsing"
    /\ \E ev \in NextEvents(scenario, stack, src) :
          \E acc \in {Iteration(ev)} :
          /\ src' = Append(src, ev)
          /\ stack' = Push(stack, ev)
          /\ last' = Some([ev |-> process_text(ev), called |-> acc.called,
                           handled |-> acc.handled, buf |-> acc.buf,
                           st |-> CurrentState])
          /\ IF acc.panic
             THEN /\ pc' = "panicked"
                  /\ UNCHANGED <<events, links, headings, current_tabgroup,
                                 current_tab, current_link, current_heading>>
             ELSE /\ pc' = "parsing"
                  /\ events' = acc.st.events
                  /\ links' = acc.links
                  /\ headings' = acc.headings
                  /\ current_tabgroup' = acc.st.tabgroup
                  /\ current_tab' = acc.st.tab
                  /\ current_link' = acc.st.link
                  /\ current_heading' = acc.st.heading
          /\ IF reaches_get_or_init(acc.called, ev)
                /\ SYNTAX_SET.state = "Incomplete"
             THEN /\ SYNTAX_SET' = [state |-> "Complete",
                                    value |-> Some(loaded + 1)]
                  /\ loaded' = loaded + 1
             ELSE UNCHANGED <<SYNTAX_SET, loaded>>
    /\ UNCHANGED <<scenario, features, url_root, link_rewrite_rules,
                   url_params, parsers, convert>>

\* parse, lines 130-144: the source is exhausted, every extension's
\* end_of_doc runs and the result is returned
EndOfDoc ==
    /\ pc = "parsing"
    /\ stack = <<>>
    /\ \E acc \in {finalize(1, Acc0)} :
       /\ pc' = IF acc.panic THEN "panicked" ELSE "done"
       /\ events' = acc.st.events
       /\ current_tabgroup' = acc.st.tabgroup
       /\ current_tab' = acc.st.tab
       /\ current_link' = acc.st.link
       /\ current_heading' = acc.st.heading
    /\ last' = Some([ev |-> Rule, called |-> <<>>, handled |-> FALSE,
                     buf |-> events, st |-> CurrentState])
    /\ UNCHANGED <<scenario, features, url_root, link_rewrite_rules,
                   url_params, src,
                   stack, links, headings, SYNTAX_SET, loaded, parsers,
                   convert>>

\* parse, lines 139-143: the ParsedMarkdown that parse returns, meaningful
\* once pc = "done"
ParsedMarkdown ==
    [html |-> to_html(push_html(events)), headings |-> headings,
     links |-> links]

Next == ParseEvent \/ EndOfDoc

---------------------------------------------------------------------------
(* Parser instances on several threads, as far as the syntax registry is   *)
(* concerned.  A SyntaxSet is known by its number in the order of loading. *)
(* A parser is a record:                                                   *)
(*   pc          "new", "parsing", "init", "wait" or "found"               *)
(*   syntax_set  the SyntaxSet that MarkdownParser::new gave its CodeBlock *)
(*   syntax      the SyntaxSet that get_or_init returned to it last        *)
(*   blocks      the fenced code blocks it has ended                       *)

Threads == 1..MaxThreads

InitThreads ==
    /\ scenario = "threads" /\ DefaultBuild /\ DefaultOptions /\ InitLocals
    /\ InitStatics
    /\ convert = None
    /\ loaded = 0
    /\ parsers = [t \in Threads |->
                    [pc |-> "new", syntax_set |-> None, syntax |-> None,
                     blocks |-> 0]]

\* the variables of the single parse
parse_vars ==
    <<scenario, features, url_root, link_rewrite_rules, url_params, src,
      stack, events, links, headings, current_tabgroup, current_tab,
      current_link, current_heading, last, pc, convert>>

\* parser.rs:53-88: the thread constructs its parser; the CodeBlock is given
\* a SyntaxSet loaded for it
MarkdownParser_new(t) ==
    /\ parsers[t].pc = "new"
    /\ loaded' = loaded + 1
    /\ parsers' = [parsers EXCEPT ![t].pc = "parsing",
                                  ![t].syntax_set = Some(loaded + 1)]
    /\ UNCHANGED <<SYNTAX_SET, parse_vars>>

\* a get_or_init that only looks whether the cell holds a value
get_or_init_unsynchronized(t) ==
    /\ parsers[t].pc = "parsing"
    /\ parsers[t].blocks < MaxBlocks
    /\ IF SYNTAX_SET.state = "Complete"
       THEN /\ parsers' = [parsers EXCEPT ![t].pc = "found",
                                          ![t].syntax = SYNTAX_SET.value]
            /\ UNCHANGED SYNTAX_SET
       ELSE /\ SYNTAX_SET' = [SYNTAX_SET EXCEPT !.state = "Running"]
            /\ parsers' = [parsers EXCEPT ![t].pc = "init"]
    /\ UNCHANGED <<loaded, parse_vars>>

\* codeblock.rs:22, SYNTAX_SET.get_or_init(..) on the End of a fenced code
\* block: the value when the cell is complete; else the thread that finds
\* the cell incomplete marks it running and runs the closure, and a thread
\* that finds it running waits
get_or_init(t) ==
    /\ parsers[t].pc = "parsing"
    /\ parsers[t].blocks < MaxBlocks
    /\ IF SYNTAX_SET.state = "Complete"
       THEN /\ parsers' = [parsers EXCEPT ![t].pc = "found",
                                          ![t].syntax = SYNTAX_SET.value]
            /\ UNCHANGED SYNTAX_SET
       ELSE IF SYNTAX_SET.state = "Incomplete"
       THEN /\ SYNTAX_SET' = [SYNTAX_SET EXCEPT !.state = "Running"]
            /\ parsers' = [parsers EXCEPT ![t].pc = "init"]
       ELSE /\ parsers' = [parsers EXCEPT ![t].pc = "wait"]
            /\ UNCHANGED SYNTAX_SET
    /\ UNCHANGED <<loaded, parse_vars>>

\* codeblock.rs:22, the closure: SyntaxSet::load_defaults_newlines() returns
\* and the cell stores its value
load_defaults_newlines(t) ==
    /\ parsers[t].pc = "init"
    /\ loaded' = loaded + 1
    /\ SYNTAX_SET' = [state |-> "Complete", value |-> Some(loaded + 1)]
    /\ parsers' = [parsers EXCEPT ![t].pc = "found",
                                  ![t].syntax = Some(loaded + 1)]
    /\ UNCHANGED parse_vars

\* codeblock.rs:22: a waiting thread is woken once the cell is complete
get_or_init_woken(t) ==
    /\ parsers[t].pc = "wait"
    /\ SYNTAX_SET.state = "Complete"
    /\ parsers' = [parsers EXCEPT ![t].pc = "found",
                                  ![t].syntax = SYNTAX_SET.value]
    /\ UNCHANGED <<SYNTAX_SET, loaded, parse_vars>>

\* codeblock.rs:24-42: the syntax is looked up and the code highlighted
\* through shared references to the SyntaxSet
find_syntax_and_highlight(t) ==
    /\ parsers[t].pc = "found"
    /\ parsers' = [parsers EXCEPT ![t].pc = "parsing", ![t].blocks = @ + 1]
    /\ UNCHANGED <<SYNTAX_SET, loaded, parse_vars>>

NextThreads ==
    \E t \in Threads :
        \/ MarkdownParser_new(t)
        \/ get_or_init(t)
        \/ load_defaults_newlines(t)
        \/ get_or_init_woken(t)
        \/ find_syntax_and_highlight(t)

---------------------------------------------------------------------------
(* Tasklist on its own.  MarkdownParser::new does not register it, so it    *)
(* is run here as parse runs an extension: it is given the buffer and each *)
(* event of a document of lists, and an event it does not handle is        *)
(* pushed.                                                                 *)

InitTasklist ==
    scenario = "tasklist" /\ DefaultBuild /\ DefaultOptions /\ InitParse

TasklistEvent ==
    /\ pc = "parsing"
    /\ \E ev \in NextEvents(scenario, stack, src) :
          \E acc \in {push_unhandled(
                         offer(Acc0, "Tasklist",
                               Tasklist_process_event(CurrentState, ev)),
                         ev)} :
          /\ src' = Append(src, ev)
          /\ stack' = Push(stack, ev)
          /\ last' = Some([ev |-> ev, called |-> acc.called,
                           handled |-> acc.handled, buf |-> acc.buf,
                           st |-> CurrentState])
          /\ pc' = IF acc.panic THEN "panicked" ELSE "parsing"
          /\ events' = IF acc.panic THEN events ELSE acc.st.events
    /\ UNCHANGED <<scenario, features, url_root, link_rewrite_rules,
                   url_params, links, headings, current_tabgroup,
                   current_tab, current_link, current_heading, SYNTAX_SET,
                   loaded, parsers, convert>>

NextTasklist == TasklistEvent

(* convert_emojis on its own, one iteration of its loop at a time.  The    *)
(* call is a record: input and output are the function's variables, text   *)
(* is what process_text was given, and pc is "loop" until the function has *)
(* written the rest of the input and returned.                             *)

\* the texts of up to n pieces
RECURSIVE Texts(_)
Texts(n) ==
    IF n = 0 THEN {<<>>}
    ELSE LET shorter == Texts(n - 1) IN
         shorter \cup {p \o t : p \in {<<":">>, <<"x">>, Chars("smile")},
                                t \in shorter}

InitConvert ==
    scenario = "convert" /\ DefaultBuild /\ DefaultOptions /\ InitParse

\* emoji.rs:8-10: process_text calls convert_emojis with the text and an
\* empty Vec
process_text_call ==
    /\ convert = None
    /\ \E text \in Texts(MaxPieces) :
          convert' = Some([text |-> text, input |-> text, output |-> <<>>,
                           pc |-> "loop"])
    /\ UNCHANGED <<SYNTAX_SET, loaded, parsers, scenario, features, url_root,
                   link_rewrite_rules, url_params, src, stack, events, links,
                   headings, current_tabgroup, current_tab, current_link,
                   current_heading, last, pc>>

\* emoji.rs:16-37: one iteration of the loop, taken while the input holds
\* two colons
convert_emojis_loop ==
    /\ IsSome(convert)
    /\ Unwrap(convert).pc = "loop"
    /\ has_candidate(Unwrap(convert).input)
    /\ \E next \in {convert_emojis_iteration(Unwrap(convert).input,
                                              Unwrap(convert).output)} :
          convert' = Some([Unwrap(convert) EXCEPT !.input = next.input,
                                                  !.output = next.output])
    /\ UNCHANGED <<SYNTAX_SET, loaded, parsers, scenario, features, url_root,
                   link_rewrite_rules, url_params, src, stack, events, links,
                   headings, current_tabgroup, current_tab, current_link,
                   current_heading, last, pc>>

\* emoji.rs:38: no two colons are left; the rest of the input is written
\* and the function returns
convert_emojis_return ==
    /\ IsSome(convert)
    /\ Unwrap(convert).pc = "loop"
    /\ ~has_candidate(Unwrap(convert).input)
    /\ convert' = Some([Unwrap(convert) EXCEPT
                           !.output = @ \o Unwrap(convert).input,
                           !.pc = "returned"])
    /\ UNCHANGED <<SYNTAX_SET, loaded, parsers, scenario, features, url_root,
                   link_rewrite_rules, url_params, src, stack, events, links,
                   headings, current_tabgroup, current_tab, current_link,
                   current_heading, last, pc>>

NextConvert ==
    process_text_call \/ convert_emojis_loop \/ convert_emojis_return

Spec == Init /\ [][Next]_vars

SpecLinks == InitLinks /\ [][Next]_vars

SpecRewrite == InitRewrite /\ [][Next]_vars

SpecTabs == InitTabs /\ [][Next]_vars

SpecHeadings == InitHeadings /\ [][Next]_vars

SpecCallout == InitCallout /\ [][Next]_vars

SpecNested == InitNested /\ [][Next]_vars

SpecHtml == InitHtml /\ [][Next]_vars

SpecTasks == InitTasks /\ [][Next]_vars

SpecCode == InitCode /\ [][Next]_vars

SpecEmoji == InitEmoji /\ [][Next]_vars

SpecTitles == InitTitles /\ [][Next]_vars

SpecTasklist == InitTasklist /\ [][NextTasklist]_vars

\* the function runs on one thread and nothing suspends it: a step that
\* can be taken is taken
SpecConvert ==
    InitConvert /\ [][NextConvert]_vars /\ WF_vars(NextConvert)

SpecThreads == InitThreads /\ [][NextThreads]_vars

---------------------------------------------------------------------------
(* The claims.                                                             *)

\* the step that led to this state was an iteration of parse's loop that
\* did not panic
AfterIteration == last # None /\ pc = "parsing"

\* C1: parse runs to completion on every well-nested event stream: no
\* extension panics, and a block quote without text or code before its
\* first paragraph end is passed through like any non-callout block quote.
C1_ParseNeverPanics == pc # "panicked"

\* C2: every event is offered to the extensions in registration order; once
\* one reports handled, no later extension is called and the buffer gains
\* that extension's outputs only, not the raw event; when none handles it,
\* all were called and the event itself is appended unchanged.
C2_FirstHandlerWins ==
    AfterIteration =>
        LET l == last[1]
            n == Len(l.called)
        IN  /\ n \in 1..Len(Extensions)
            /\ \A i \in 1..n : l.called[i].ext = Extensions[i]
            /\ \A i \in 1..(n - 1) : ~l.called[i].handled /\ l.called[i].evs = <<>>
            /\ l.handled = l.called[n].handled
            /\ l.handled => events = l.buf \o l.called[n].evs
            /\ ~l.handled => /\ n = Len(Extensions)
                             /\ events = l.buf \o l.called[n].evs \o <<l.ev>>

\* C2, witness: an event that an extension before the last one handled,
\* with outputs that differ from the event
C2_HandledEarly ==
    /\ AfterIteration
    /\ last[1].handled
    /\ Len(last[1].called) < Len(Extensions)
    /\ last[1].called[Len(last[1].called)].evs # <<last[1].ev>>

\* the links of the source that are not tab declarations
IsOrdinaryLinkStart(e) == IsStart(e, "Link") /\ ~IsTabLink(e)
IsLinkStart(e) == IsStart(e, "Link")
\* an emitted link that the links result lists: inline, and its href parses
\* or fails with EmptyHost or RelativeUrlWithoutBase
IsListedLinkStart(e) ==
    /\ IsStart(e, "Link")
    /\ e.lt = "Inline"
    /\ UrlParse(e.url) \in {"Host", "NoHost", "EmptyHost", "RelativeUrlWithoutBase"}
UrlKind(url) == IF UrlParse(url) \in {"Host", "NoHost"} THEN "Remote" ELSE "Local"
NoOpenLink == \A i \in 1..Len(stack) : stack[i].tag # "Link"

\* C3: links lists, in document order, one Link for each inline link that is
\* no tab declaration and whose href is classifiable, and none for any other
\* link; its url is the classification of the href that was emitted: Remote
\* when it parses, Local when it fails with EmptyHost or
\* RelativeUrlWithoutBase.
C3_LinksInDocumentOrder ==
    (pc # "panicked" /\ NoOpenLink) =>
        LET offered == SelectSeq(src, IsOrdinaryLinkStart)
            emitted == SelectSeq(events, IsLinkStart)
            listed == SelectSeq(emitted, IsListedLinkStart)
        IN  /\ Len(emitted) = Len(offered)
            /\ \A i \in 1..Len(emitted) : emitted[i].lt = offered[i].lt
            /\ Len(links) = Len(listed)
            /\ \A i \in 1..Len(links) :
                  links[i].url = <<UrlKind(listed[i].url), listed[i].url>>

\* C3, witness: a parsed document with a local link, then a remote link, and
\* a third link that is not listed
C3_LocalThenRemote ==
    /\ pc = "done"
    /\ Len(links) = 2
    /\ links[1].url[1] = "Local"
    /\ links[2].url[1] = "Remote"
    /\ Len(SelectSeq(src, IsLinkStart)) = 3

\* url_root without its trailing slashes
RECURSIVE C4_RootTrimmed(_)
C4_RootTrimmed(root) ==
    IF root # <<>> /\ root[Len(root)] = "/"
    THEN C4_RootTrimmed(SubSeq(root, 1, Len(root) - 1))
    ELSE root

\* the URL the claim says is emitted for the URL u of the source
C4_Claimed(u) ==
    IF \E r \in link_rewrite_rules : r[1] = u
    THEN (CHOOSE r \in link_rewrite_rules : r[1] = u)[2]
    ELSE IF u # <<>> /\ u[1] = "/" THEN C4_RootTrimmed(url_root) \o u
    ELSE u

\* C4: the URL emitted for a Start(Link) or Start(Image), before parameters
\* are appended, is the mapped value of an exact key of link_rewrite_rules
\* (url_root is not applied to it), else url_root without its trailing slash
\* followed by the URL when the URL begins with '/', else the URL; so a URL
\* that does not begin with '/' is never changed by url_root, and under
\* url_root '/' an absolute path is unchanged.
C4_RewrittenUrl ==
    (AfterIteration /\ last[1].ev.k = "Start"
        /\ last[1].ev.tag \in {"Link", "Image"} /\ ~IsTabLink(last[1].ev)) =>
        LET u == last[1].ev.url
            out == events[Len(events)]
            isKey == \E r \in link_rewrite_rules : r[1] = u
        IN  /\ out.k = "Start" /\ out.tag = last[1].ev.tag
            /\ \/ out.url = C4_Claimed(u)
               \/ /\ out.tag = "Link"
                  /\ url_params # <<>>
                  /\ StartsWith(out.url, C4_Claimed(u) \o <<"?">>)
            /\ (~isKey /\ ~StartsWith(u, <<"/">>)) => StartsWith(out.url, u)
            /\ (~isKey /\ url_root = <<"/">> /\ out.tag = "Image") => out.url = u

\* C4, witness: an image whose URL is a key, under a url_root other than '/',
\* emitted with the mapped value, itself an absolute path
C4_MappedNotRooted ==
    /\ AfterIteration
    /\ last[1].ev = StartImage("Inline", Url_abs, <<>>)
    /\ url_root = <<"/", "r">>
    /\ link_rewrite_rules = {<<Url_abs, Url_mapped>>}
    /\ events[Len(events)].url = Url_mapped

\* 'key=value' of the parameters from the i-th on, joined by '&'
RECURSIVE C5_Query(_, _)
C5_Query(params, i) ==
    IF i > Len(params) THEN <<>>
    ELSE params[i][1] \o <<"=">> \o params[i][2]
         \o (IF i < Len(params) THEN <<"&">> ELSE <<>>)
         \o C5_Query(params, i + 1)

\* C5: with url_params non-empty, the href of a link is the rewritten URL
\* followed by '?' and the pairs in their order if and only if the rewritten
\* URL is local (it parses without host, or fails with
\* RelativeUrlWithoutBase or EmptyHost); otherwise, and with no url_params,
\* it is the rewritten URL.
C5_ParametersAppended ==
    (AfterIteration /\ IsOrdinaryLinkStart(last[1].ev)) =>
        LET rewritten == C4_Claimed(last[1].ev.url)
            local == UrlParse(rewritten) \in
                        {"NoHost", "RelativeUrlWithoutBase", "EmptyHost"}
            href == events[Len(events)].url
        IN  IF url_params # <<>> /\ local
            THEN href = rewritten \o <<"?">> \o C5_Query(url_params, 1)
            ELSE href = rewritten

\* C5, witness: a relative link emitted with two parameters
C5_TwoParameters ==
    /\ AfterIteration
    /\ last[1].ev = StartLink("Inline", Url_rel, <<>>)
    /\ Len(url_params) = 2
    /\ events[Len(events)].url =
          <<"r", "?", "k", "=", "v", "&", "j", "=", "w">>

\* C5, witness of the other side: a link to a host, emitted unchanged
\* although there are parameters
C5_HostUnchanged ==
    /\ AfterIteration
    /\ last[1].ev = StartLink("Inline", Url_remote, <<>>)
    /\ url_params # <<>>
    /\ events[Len(events)].url = Url_remote

\* the headings of the source that have closed, each with its level, the
\* text and code between its Start and End, the text and code before its
\* first link, the ids of its tab links and the number of its links
RECURSIVE HeadingsOf(_, _, _)
HeadingsOf(s, cur, acc) ==
    IF s = <<>> THEN acc
    ELSE LET e == Head(s) IN
         IF IsStart(e, "Heading")
         THEN HeadingsOf(Tail(s),
                         Some([lvl |-> e.lvl, title |-> <<>>, pre |-> <<>>,
                               tabs |-> <<>>, nlinks |-> 0]),
                         acc)
         ELSE IF cur = None THEN HeadingsOf(Tail(s), cur, acc)
         ELSE IF IsEnd(e, "Heading")
         THEN HeadingsOf(Tail(s), None, Append(acc, cur[1]))
         ELSE IF IsTextOrCode(e)
         THEN HeadingsOf(Tail(s),
                         Some([cur[1] EXCEPT
                                 !.title = @ \o e.s,
                                 !.pre = IF cur[1].nlinks = 0 THEN @ \o e.s
                                         ELSE @]),
                         acc)
         ELSE IF IsStart(e, "Link")
         THEN HeadingsOf(Tail(s),
                         Some([cur[1] EXCEPT
                                 !.nlinks = @ + 1,
                                 !.tabs = IF IsTabLink(e)
                                          THEN Append(@, TabId(e.url)) ELSE @]),
                         acc)
         ELSE HeadingsOf(Tail(s), cur, acc)

SrcHeadings == HeadingsOf(src, None, <<>>)
DeclaresNoTab(h) == h.tabs = <<>>
IsHeadingStart(e) == IsStart(e, "Heading")

\* C6: every heading that declares no tab adds exactly one Heading when its
\* End(Heading) is processed, with the level of its own Start, the text and
\* code between its own Start and End as title and the slug of the title as
\* anchor; its buffered Start(Heading) is rewritten to '<hN id="anchor">',
\* and no Start(Heading) is left in the final buffer.
C6_PlainHeadingsRecorded ==
    LET plain == SelectSeq(SrcHeadings, DeclaresNoTab) IN
    /\ pc # "panicked" =>
          /\ Len(headings) = Len(plain)
          /\ \A i \in 1..Len(headings) :
                headings[i] = [level |-> plain[i].lvl, title |-> plain[i].title,
                               anchor |-> slugify(plain[i].title)]
    /\ (AfterIteration /\ IsEnd(last[1].ev, "Heading") /\ plain # <<>>
          /\ DeclaresNoTab(SrcHeadings[Len(SrcHeadings)])) =>
          LET before == last[1].st.events
              at == RFindStart(before, "Heading", Len(before))
              h == plain[Len(plain)]
          IN  at > 0 /\ events[at] = HeadingOpen(h.lvl, slugify(h.title))
    /\ pc = "done" => SelectSeq(events, IsHeadingStart) = <<>>

\* the anchor the specification gives for the title "My Heading"
Slug_my_heading == <<"m", "y", "-", "h", "e", "a", "d", "i", "n", "g">>

\* the words of a title: its maximal runs of ASCII letters and digits, the
\* letters lowered
RECURSIVE C7_Words(_, _, _)
C7_Words(s, cur, acc) ==
    IF s = <<>>
    THEN IF cur = <<>> THEN acc ELSE Append(acc, cur)
    ELSE IF Head(s) \in Lower \cup Upper \cup Digit
         THEN C7_Words(Tail(s), Append(cur, ToLower(Head(s))), acc)
         ELSE C7_Words(Tail(s), <<>>, IF cur = <<>> THEN acc ELSE Append(acc, cur))

\* C7 as stated: two headings of one document whose titles differ never
\* receive the same anchor.
C7_AnchorInjective ==
    \A i, j \in 1..Len(headings) :
        headings[i].title # headings[j].title =>
            headings[i].anchor # headings[j].anchor

\* C7 as amended: the anchor is a function of the title ('My Heading' gets
\* 'my-heading'), and two headings receive the same anchor exactly when
\* their titles have the same words.
C7_AnchorByWords ==
    \A i, j \in 1..Len(headings) :
        /\ headings[i].title = headings[j].title =>
              headings[i].anchor = headings[j].anchor
        /\ headings[i].title = Title_My_Heading =>
              headings[i].anchor = Slug_my_heading
        /\ headings[i].anchor = headings[j].anchor <=>
              C7_Words(headings[i].title, <<>>, <<>>)
                = C7_Words(headings[j].title, <<>>, <<>>)

\* C7, witness: two headings with different titles and one anchor, and a
\* third with other words and another anchor
C7_SharedAnchor ==
    /\ Len(headings) = 2
    /\ headings[1].title = Title_My_Heading
    /\ headings[2].title = Title_my_heading
    /\ headings[1].anchor = headings[2].anchor

TabIds == {<<"a">>, <<"b">>}
DeclaresTab(h) == h.tabs # <<>>
IsPanelOpen(e) == \E a \in BOOLEAN, id \in TabIds : e = PanelOpen(a, id)
IsPlaceholder(e) == e = Placeholder
IsTabListOpen(e) == e = TabListOpen
IsTabGroupOpen(e) == e = TabGroupOpen
IsRule(e) == e.k = "Rule"

\* the entries of the tablists of a buffer: the events that follow a
\* '<li ...>' opener
RECURSIVE LabelsOf(_, _)
LabelsOf(evts, i) ==
    IF i >= Len(evts) THEN <<>>
    ELSE (IF evts[i] = TabItemOpen THEN <<evts[i + 1]>> ELSE <<>>)
         \o LabelsOf(evts, i + 1)

\* a parsed document with one tab group, in which every tab link is the
\* sole link of a heading of its own
C8_OneGroupOfTabHeadings ==
    LET declaring == SelectSeq(SrcHeadings, DeclaresTab) IN
    /\ pc = "done"
    /\ SelectSeq(src, IsRule) = <<>>
    /\ declaring # <<>>
    /\ Len(SelectSeq(src, IsTabLink)) = Len(declaring)
    /\ \A i \in 1..Len(declaring) : declaring[i].nlinks = 1

\* C8: once such a group is closed, the buffer holds one tab-panel opener
\* per tab link, in declaration order and with its id, and one tablist with
\* one label per tab in the same order, whose id and text are the tab's id
\* and the heading's text; only the first panel and the first label are
\* active.
C8_PanelsAndLabels ==
    C8_OneGroupOfTabHeadings =>
        LET declaring == SelectSeq(SrcHeadings, DeclaresTab)
            n == Len(declaring)
        IN  /\ SelectSeq(events, IsPanelOpen) =
                  [i \in 1..n |-> PanelOpen(i = 1, declaring[i].tabs[1])]
            /\ Len(SelectSeq(events, IsTabListOpen)) = 1
            /\ LabelsOf(events, 1) =
                  [i \in 1..n |-> TabLabel([id |-> declaring[i].tabs[1],
                                            title |-> declaring[i].title,
                                            is_active |-> i = 1])]

\* C9: a tab group that is open when the source is exhausted is closed by
\* end_of_doc exactly as a Rule closes it (the panel is closed, the
\* placeholder gives way to the tablist, the group is closed); once parse has
\* finished, no placeholder is in the buffer and Tabs holds neither a group
\* nor a tab.
C9_EndOfDocClosesGroup ==
    pc = "done" =>
        /\ current_tabgroup = None
        /\ current_tab = None
        /\ SelectSeq(events, IsPlaceholder) = <<>>
        /\ IsSome(last[1].st.tabgroup) =>
              LET before == last[1].st.events
                  group == Unwrap(last[1].st.tabgroup)
                  byRule == Tabs_process_event(last[1].st, Rule)
              IN  /\ events = SubSeq(before, 1, group.index + 1)
                              \o TabList(group.tabs)
                              \o SubSeq(before, group.index + 3, Len(before))
                              \o <<DivClose, DivClose>>
                  /\ byRule.handled
                  /\ events = byRule.st.events \o byRule.evs

\* C9, witness: a document that ends with a group of two tabs open
C9_OpenGroupAtEnd ==
    /\ pc = "done"
    /\ IsSome(last[1].st.tabgroup)
    /\ Len(Unwrap(last[1].st.tabgroup).tabs) = 2

\* C10: at most one tab group is open: a tab link met while a group is open
\* adds a panel opener and neither a tabgroup div nor a placeholder, and
\* leaves the group's position and tabs alone; a Rule leaves no group open;
\* a tab link met while none is open opens a group at the end of the
\* buffer, with no tabs and its own placeholder, and its panel is active.
C10_OneGroupAtATime ==
    /\ Len(SelectSeq(events, IsPlaceholder)) <= 1
    /\ current_tabgroup = None => SelectSeq(events, IsPlaceholder) = <<>>
    /\ (AfterIteration /\ IsRule(last[1].ev)) => current_tabgroup = None
    /\ (AfterIteration /\ IsTabLink(last[1].ev)) =>
          LET before == last[1].st
              n == Len(before.events)
              id == TabId(last[1].ev.url)
              added == SubSeq(events, n + 1, Len(events))
          IN  /\ SubSeq(events, 1, n) = before.events
              /\ IF IsSome(before.tabgroup)
                 THEN /\ added \in {<<DivClose, PanelOpen(FALSE, id)>>,
                                    <<PanelOpen(TRUE, id)>>}
                      /\ current_tabgroup = before.tabgroup
                 ELSE /\ added = <<TabGroupOpen, Placeholder, PanelOpen(TRUE, id)>>
                      /\ current_tabgroup = Some([index |-> n, tabs |-> <<>>])
                      /\ Unwrap(current_tab).is_active

\* C10, witness: a tab link that opens a second group after a Rule has
\* closed a first one, which had a tab
C10_NewGroupAfterRule ==
    /\ AfterIteration
    /\ IsTabLink(last[1].ev)
    /\ last[1].st.tabgroup = None
    /\ SelectSeq(src, IsRule) # <<>>
    /\ LabelsOf(events, 1) # <<>>
    /\ Len(SelectSeq(events, IsTabGroupOpen)) = 2

\* C11: a heading without a tab link that ends while a tab group is open is
\* an ordinary heading: TableOfContents is reached and records it, its
\* Start(Heading) becomes '<hN id="anchor">', nothing else in the buffer
\* changes and nothing but the heading's End is appended (no panel or group
\* is closed), and the group keeps its tabs.
C11_PlainHeadingInGroup ==
    (/\ AfterIteration
     /\ IsEnd(last[1].ev, "Heading")
     /\ IsSome(last[1].st.tabgroup)
     /\ SrcHeadings # <<>>
     /\ DeclaresNoTab(SrcHeadings[Len(SrcHeadings)])) =>
        LET before == last[1].st
            n == Len(before.events)
            at == RFindStart(before.events, "Heading", n)
            h == SrcHeadings[Len(SrcHeadings)]
        IN  /\ at > 0
            /\ Len(events) > n
            /\ events[at] = HeadingOpen(h.lvl, slugify(h.title))
            /\ \A j \in 1..n : j # at => events[j] = before.events[j]
            /\ \A j \in (n + 1)..Len(events) : IsEnd(events[j], "Heading")
            /\ last[1].called[Len(last[1].called)].ext = "TableOfContents"
            /\ headings # <<>>
            /\ headings[Len(headings)] =
                  [level |-> h.lvl, title |-> h.title,
                   anchor |-> slugify(h.title)]
            /\ current_tabgroup = before.tabgroup

\* the markup that opens a callout, and the events that open and close a
\* block quote in the buffer, converted or not
IsCalloutOpen(e) ==
    /\ e.k = "Html"
    /\ Len(e.s[1]) >= 20
    /\ SubSeq(e.s[1], 1, 20) = "<div class=\"callout "
IsBlockQuoteOpen(e) == IsStart(e, "BlockQuote") \/ IsCalloutOpen(e)
IsBlockQuoteClose(e) == IsEnd(e, "BlockQuote") \/ e = CalloutClose

\* the position in s[1..i] of the opener of the block quote that is open
\* after s[1..i], skipping the block quotes nested in it that have closed
RECURSIVE OwnStart(_, _, _)
OwnStart(s, i, depth) ==
    IF i = 0 THEN 0
    ELSE IF IsBlockQuoteClose(s[i]) THEN OwnStart(s, i - 1, depth + 1)
    ELSE IF IsBlockQuoteOpen(s[i])
    THEN IF depth = 0 THEN i ELSE OwnStart(s, i - 1, depth - 1)
    ELSE OwnStart(s, i - 1, depth)

\* the source's last event ends a block quote
EndsBlockQuote == src # <<>> /\ IsEnd(src[Len(src)], "BlockQuote")
\* where that block quote starts in the source
SrcOwnStart == OwnStart(src, Len(src) - 1, 0)
\* its title line: the text and code after its start up to the first
\* End(Paragraph), and the words of it
SrcTitleLine == CalloutTitle(SubSeq(src, 1, Len(src) - 1), SrcOwnStart + 1)
SrcTitleWords == split_whitespace(SrcTitleLine)
\* no nested block quote starts within the title line
TitleIsOwn ==
    LET stop == FFindEnd(src, "Paragraph", SrcOwnStart + 1) IN
    \A j \in (SrcOwnStart + 1)..(IF stop = 0 THEN Len(src) ELSE stop) :
        ~IsStart(src[j], "BlockQuote")

\* the kind of callout a keyword stands for
C12_Kind(word) ==
    CASE word \in {"info", "notice"} -> "info"
      [] word = "success" -> "success"
      [] word \in {"warning", "warn"} -> "warning"
      [] word = "error" -> "error"
      [] OTHER -> ""

\* C12: when End(BlockQuote) arrives for a block quote whose title line
\* begins with a callout keyword, parse does not panic, Callout handles the
\* event, the block quote's own start marker becomes the callout opener of
\* the keyword's kind, with a callout-title paragraph of the following
\* words joined by single spaces exactly when there are any, the buffer
\* gains one callout opener, and '</div></div>' is buffered instead of
\* End(BlockQuote).
C12_CalloutConverted ==
    (/\ last # None
     /\ pc # "done"
     /\ EndsBlockQuote
     /\ TitleIsOwn
     /\ SrcTitleWords # <<>>
     /\ C12_Kind(Join(SrcTitleWords[1])) # "") =>
        LET before == last[1].st.events
            n == Len(before)
            own == OwnStart(before, n, 0)
            kind == C12_Kind(Join(SrcTitleWords[1]))
            rest == Tail(SrcTitleWords)
        IN  /\ pc # "panicked"
            /\ last[1].called =
                  <<[ext |-> "Callout", handled |-> TRUE,
                     evs |-> <<CalloutClose>>]>>
            /\ own > 0
            /\ events[own] =
                  (IF rest = <<>>
                   THEN Html("<div class=\"callout " \o kind
                             \o "\"><div class=\"callout-content\">")
                   ELSE Html("<div class=\"callout " \o kind
                             \o "\"><p class=\"callout-title\">"
                             \o Join(JoinWords(rest))
                             \o "</p><div class=\"callout-content\">"))
            /\ Len(SelectSeq(events, IsCalloutOpen)) =
                  Len(SelectSeq(before, IsCalloutOpen)) + 1
            /\ events = SubSeq(events, 1, n) \o <<CalloutClose>>

\* the title line of s[i..] without the text of nested block quotes
RECURSIVE OwnTitle(_, _, _)
OwnTitle(s, i, depth) ==
    IF i > Len(s) THEN <<>>
    ELSE IF IsStart(s[i], "BlockQuote") THEN OwnTitle(s, i + 1, depth + 1)
    ELSE IF IsEnd(s[i], "BlockQuote") THEN OwnTitle(s, i + 1, depth - 1)
    ELSE IF depth > 0 THEN OwnTitle(s, i + 1, depth)
    ELSE IF IsEnd(s[i], "Paragraph") THEN <<>>
    ELSE (IF IsTextOrCode(s[i]) THEN s[i].s ELSE <<>>)
         \o OwnTitle(s, i + 1, depth)

SrcOwnTitleWords ==
    split_whitespace(OwnTitle(SubSeq(src, 1, Len(src) - 1), SrcOwnStart + 1, 0))

\* C13: when End(BlockQuote) arrives for a block quote whose title line,
\* read with and without the text of the block quotes nested in it, begins
\* with a word that is no callout keyword, parse does not panic, Callout
\* returns no output and unhandled, and the buffer is the buffer as it was
\* with End(BlockQuote) pushed.
C13_PlainBlockQuoteUntouched ==
    (/\ last # None
     /\ pc # "done"
     /\ EndsBlockQuote
     /\ SrcTitleWords # <<>>
     /\ C12_Kind(Join(SrcTitleWords[1])) = ""
     /\ SrcOwnTitleWords # <<>>
     /\ C12_Kind(Join(SrcOwnTitleWords[1])) = "") =>
        /\ pc # "panicked"
        /\ last[1].called # <<>>
        /\ last[1].called[1] =
              [ext |-> "Callout", handled |-> FALSE, evs |-> <<>>]
        /\ events = last[1].st.events \o <<last[1].ev>>

\* C14: when Callout converts a block quote, the buffer changes only at
\* the block quote's own start marker, which becomes the callout opener,
\* and from just after it up to and including the first End(Paragraph) (to
\* the end of the buffer when there is none), which is blanked; the events
\* before the start marker and after that End(Paragraph) stay as they were
\* and one event is appended.
C14_OnlyTitleLineRewritten ==
    (/\ AfterIteration
     /\ IsEnd(last[1].ev, "BlockQuote")
     /\ last[1].called[1].handled) =>
        LET before == last[1].st.events
            n == Len(before)
            own == OwnStart(before, n, 0)
            stop == FFindEnd(before, "Paragraph", own + 1)
            to == IF stop = 0 THEN n ELSE stop
        IN  /\ own > 0
            /\ Len(events) = n + 1
            /\ IsCalloutOpen(events[own])
            /\ \A j \in 1..n :
                  /\ (j < own \/ j > to) => events[j] = before[j]
                  /\ (own < j /\ j <= to) => events[j] = Blank

\* the class of the div a fenced code block is wrapped in: the first
\* space-delimited token of its info string when that is mermaid or math
C15_Class(e) ==
    IF e.tag = "CodeBlock" /\ e.lt = "Fenced"
       /\ Join(FirstToken(e.s)) \in {"mermaid", "math"}
    THEN Join(FirstToken(e.s)) ELSE ""

\* C15: for a fenced code block whose first info token is mermaid or math,
\* parse does not panic, the Start event puts '<div class="mermaid">' or
\* '<div class="math">' at the end of the buffer, each body Text is pushed
\* as it is, and the End event puts '</div>' at the end of the buffer;
\* nothing buffered before is changed and no Start(CodeBlock) or
\* End(CodeBlock) is buffered.
C15_SpecialFenceWrapped ==
    /\ (last # None /\ pc # "done" /\ C15_Class(last[1].ev) # "") =>
          /\ pc # "panicked"
          /\ last[1].ev.k = "Start" =>
                \E nl \in {"", "\n"} :
                   events = last[1].st.events
                            \o <<Html("<div class=\"" \o C15_Class(last[1].ev)
                                      \o "\">" \o nl)>>
          /\ last[1].ev.k = "End" =>
                events = last[1].st.events \o <<Html("</div>")>>
    /\ (AfterIteration /\ last[1].ev.k = "Text" /\ stack # <<>>
          /\ C15_Class(stack[Len(stack)]) # "") =>
          events = last[1].st.events \o <<last[1].ev>>

\* the fenced code blocks of the source whose first info token is lang
HasFence(lang) ==
    \E i \in 1..Len(src) :
        /\ src[i].k = "Start" /\ src[i].tag = "CodeBlock"
        /\ src[i].lt = "Fenced"
        /\ Join(FirstToken(src[i].s)) = lang

\* a code block body that CodeBlock has highlighted
IsHighlighted(e) ==
    /\ e.k = "Html"
    /\ Len(e.s[1]) >= 6
    /\ SubSeq(e.s[1], 1, 6) = "<span>"

\* C16: the result parse returns has a blocks set, which holds "diagram"
\* exactly when the document has a mermaid block, "math" exactly when it
\* has a math block, and "code" exactly when a fenced code block was
\* highlighted.
C16_BlocksRecorded ==
    pc = "done" =>
        /\ "blocks" \in DOMAIN ParsedMarkdown
        /\ "diagram" \in ParsedMarkdown.blocks <=> HasFence("mermaid")
        /\ "math" \in ParsedMarkdown.blocks <=> HasFence("math")
        /\ "code" \in ParsedMarkdown.blocks <=>
              \E j \in 1..Len(events) : IsHighlighted(events[j])

\* the extension named name was offered the event of the last iteration
WasOffered(name) ==
    \E i \in 1..Len(last[1].called) : last[1].called[i].ext = name

\* the index in the source of the Start of the code block that the last
\* source event ends
SrcCodeBlockStart ==
    CHOOSE i \in 1..Len(src) :
        /\ src[i].k = "Start" /\ src[i].tag = "CodeBlock"
        /\ \A j \in (i + 1)..Len(src) : src[j].k # "Start"

\* C17: when CodeBlock is offered the End of a fenced code block and no
\* syntax matches the info string (so none matches its language either),
\* or the last buffered event is not a Text, CodeBlock returns no output
\* and no flag, reports unhandled and leaves the buffer and every field
\* as they were; the End is buffered itself and the buffer ends with the
\* block's Start, body and End as the source gave them.
C17_UnmatchedFenceUntouched ==
    (/\ AfterIteration
     /\ IsFenced(last[1].ev, "End")
     /\ WasOffered("CodeBlock")
     /\ \/ ~find_syntax_by_token(last[1].ev.s)
        \/ last[1].st.events[Len(last[1].st.events)].k # "Text")
    => LET before == last[1].st
           r == CodeBlock_process_event(before, last[1].ev)
           n == Len(src) - SrcCodeBlockStart
       IN  /\ ~r.panic /\ ~r.handled /\ ~r.some
           /\ r.evs = <<>> /\ r.blk = <<>>
           /\ r.st = before
           /\ ~last[1].handled
           /\ events = Append(before.events, last[1].ev)
           /\ Len(events) > n
           /\ \A j \in 0..n :
                 events[Len(events) - j] = process_text(src[Len(src) - j])

\* a block of an unknown language with a body, then an empty block of a
\* known language, both ended
C17_UnknownThenEmpty ==
    /\ AfterIteration
    /\ Len(src) = 5
    /\ src[1] = StartCodeBlock("Fenced", Str_a)
    /\ src[2].k = "Text"
    /\ src[3] = EndCodeBlock("Fenced", Str_a)
    /\ src[4] = StartCodeBlock("Fenced", Info_rs)
    /\ src[5] = EndCodeBlock("Fenced", Info_rs)
    /\ events = src

\* the number of places where p occurs in h
CountSeq(h, p) ==
    Cardinality({i \in 1..(Len(h) - Len(p) + 1) :
                    SubSeq(h, i, i + Len(p) - 1) = p})

Occurrences(h, str) == CountSeq(h, Chars(str))

SrcCount(e) == Len(SelectSeq(src, LAMBDA x : x = e))

\* the lists of the source that hold a TaskListMarker
SrcTaskLists ==
    {i \in 1..Len(src) :
        /\ IsStart(src[i], "List")
        /\ \E j \in (i + 1)..Len(src) :
              /\ src[j].k = "TaskListMarker"
              /\ \A k \in (i + 1)..j : ~IsEnd(src[k], "List")}

\* C18: in the html that parse returns, a list that holds a task marker
\* opens with <ul class="checklist">, every marker is a checkbox input,
\* checked exactly when the marker is, and the list items are as they
\* were.
C18_ChecklistRendered ==
    (pc = "done" /\ SrcTaskLists # {}) =>
        /\ Occurrences(ParsedMarkdown.html, "<ul class=\"checklist\">")
              >= 1
        /\ Occurrences(ParsedMarkdown.html, "type=\"checkbox\"")
              = SrcCount(TaskListMarker(TRUE)) + SrcCount(TaskListMarker(FALSE))
        /\ Occurrences(ParsedMarkdown.html, "checked=\"\"")
              = SrcCount(TaskListMarker(TRUE))
        /\ Occurrences(ParsedMarkdown.html, "<li>") = SrcCount(Start("Item"))

\* the source events that carry the text x
IsSrcText(e) == e = Text(Str_x) \/ e = Html("x")

SrcTexts == {i \in 1..Len(src) : IsSrcText(src[i])}

\* the raw HTML that opens an element whose content is cleaned
CleanOpeners == {Html("<script>"), Html("<style>"), Html("<form>")}

\* the first such event of the source, 0 when there is none
SrcFirstCleaned ==
    FirstOf({i \in 1..Len(src) : src[i] \in CleanOpeners}, 0)

\* the source event at position i lies inside the element that the first
\* opener opens: a script runs to its end tag, a style (never ended in
\* these documents) to the end, a form to the first end tag of any kind
SrcInsideCleaned(i) ==
    LET j == SrcFirstCleaned IN
    /\ j # 0 /\ j < i
    /\ \A k \in (j + 1)..(i - 1) :
          CASE src[j] = Html("<script>") -> src[k] # Html("</script>")
            [] src[j] = Html("<style>") -> TRUE
            [] OTHER -> src[k].k # "End" /\ src[k] \notin
                            {Html("</form>"), Html("</custom>"),
                             Html("</object>"), Html("</script>")}

\* C19: the html that parse returns holds no script, form or style element
\* and none of the text inside one; a tag outside the allow-list is
\* stripped and the text inside it kept; a document that is one script
\* element gives the empty html; and parse does not fail on any of this.
C19_CleanedAndUnwrapped ==
    /\ pc # "panicked"
    /\ pc = "done" =>
        LET html == ParsedMarkdown.html IN
        /\ \A tag \in {"<script", "<form", "<style", "<custom", "<object"} :
              Occurrences(html, tag) = 0
        /\ Occurrences(html, "x")
              <= Cardinality({i \in SrcTexts : ~SrcInsideCleaned(i)})
        /\ Occurrences(html, "x")
              >= Cardinality({i \in SrcTexts : SrcFirstCleaned = 0
                                               \/ i < SrcFirstCleaned})
        /\ src = <<Html("<script>"), Html("x"), Html("</script>")>>
              => html = <<>>

\* a document that is one script element has been parsed
C19_ScriptOnly ==
    /\ pc = "done"
    /\ src = <<Html("<script>"), Html("x"), Html("</script>")>>
    /\ ParsedMarkdown.html = <<>>

\* C20: the sanitizer applied to the html it has produced returns the same
\* html.
C20_SanitizeIdempotent ==
    pc = "done" => to_html(ParsedMarkdown.html) = ParsedMarkdown.html

\* the text with every ':shortcode:' of a known shortcode replaced by its
\* emoji, read from the left, and every other character kept
RECURSIVE C21_Replaced(_)
C21_Replaced(s) ==
    IF s = <<>> THEN <<>>
    ELSE LET known == {c \in Shortcodes :
                          StartsWith(s, <<":">> \o Chars(c) \o <<":">>)}
         IN  IF known # {}
             THEN LET c == CHOOSE c \in known : TRUE
                  IN  <<Emoji(c)>> \o C21_Replaced(Drop(s, Len(c) + 2))
             ELSE <<Head(s)>> \o C21_Replaced(Tail(s))

\* no ':shortcode:' of a known shortcode occurs in the text
C21_NoneKnown(s) ==
    \A i \in 1..Len(s) : \A c \in Shortcodes :
        ~StartsWith(Drop(s, i - 1), <<":">> \o Chars(c) \o <<":">>)

\* the last step processed a Text event of the source
AfterText ==
    AfterIteration /\ src[Len(src)].k = "Text"

\* C21: the emoji text processor replaces each ':shortcode:' whose shortcode
\* is known by its emoji, dropping both colons, and leaves every other
\* character unchanged; a text whose candidates are all unknown, a text with
\* an unterminated ':name' and a text without a colon come back identical.
C21_EmojisReplaced ==
    AfterText =>
        LET text == src[Len(src)].s
            out == EmojiConverter_process_text(text)
        IN  /\ last[1].ev = Text(out)
            /\ out = C21_Replaced(text)
            /\ C21_NoneKnown(text) => out = text

\* C21, witness: an unknown candidate whose closing colon opens a known
\* shortcode; the known one is replaced and the unknown one kept
C21_UnknownThenKnown ==
    /\ AfterText
    /\ src[Len(src)].s = Str_x_smile
    /\ last[1].ev.s = <<":", "x", Emoji("smile")>>

\* the event the extensions are to be offered for the source event e: a
\* Text with the text processors applied, any other event itself
C22_Processed(e) ==
    IF e.k = "Text" THEN Text(EmojiConverter_process_text(e.s)) ELSE e

\* the block quote the source has just closed holds paragraphs of text and
\* code only
C22_PlainQuote ==
    /\ EndsBlockQuote
    /\ \A j \in (SrcOwnStart + 1)..(Len(src) - 1) :
          IsTextOrCode(src[j]) \/ src[j].tag = "Paragraph"

\* C22: text processors run on a Text event before any extension sees it:
\* the Text event that is buffered and the text that the extensions add to
\* a link's, a heading's and a tab's title and read as a callout's title
\* line are the processed text; a Code event is buffered and accumulated as
\* it is.
C22_ExtensionsSeeProcessedText ==
    AfterIteration =>
        LET e == src[Len(src)]
            p == C22_Processed(e)
            before == last[1].st
            n == Len(before.events)
            own == OwnStart(before.events, n, 0)
            line == CalloutTitle(
                        [j \in 1..(Len(src) - 1) |-> C22_Processed(src[j])],
                        SrcOwnStart + 1)
        IN  /\ (IsTextOrCode(e) /\ ~last[1].handled) =>
                  events = before.events \o <<p>>
            /\ (e.k = "Text" /\ IsSome(before.link)) =>
                  current_link =
                     Some([before.link[1] EXCEPT !.title = @ \o p.s])
            /\ (IsTextOrCode(e) /\ IsSome(before.heading)) =>
                  current_heading =
                     Some([before.heading[1] EXCEPT !.title = @ \o p.s])
            /\ (IsTextOrCode(e) /\ IsSome(before.tab)) =>
                  current_tab =
                     Some([before.tab[1] EXCEPT !.title = @ \o p.s])
            /\ (C22_PlainQuote /\ last[1].called[1].handled) =>
                  /\ own > 0
                  /\ events[own] = CalloutOpen(parse_callout(line).kind,
                                               parse_callout(line).title)

\* C22, witness: a shortcode inside a link; the title the link rewriter
\* accumulates and the text in the buffer hold the emoji
C22_EmojiInLinkTitle ==
    /\ AfterText
    /\ src[Len(src)].s = Str_smile
    /\ IsSome(last[1].st.link)
    /\ current_link[1].title = <<Emoji("smile")>>
    /\ events[Len(events)] = Text(<<Emoji("smile")>>)

\* C22, witness: a shortcode in the title line of a callout
C22_EmojiInCalloutTitle ==
    /\ AfterIteration
    /\ C22_PlainQuote
    /\ last[1].called[1].handled
    /\ \E j \in 1..Len(events) :
          events[j] = CalloutOpen("info", <<Emoji("smile")>>)

IsHeadingEnd(e) == IsEnd(e, "Heading")
IsHeadingOpenMarkup(e) ==
    e.k = "Html" /\ Len(e.s[1]) >= 2 /\ SubSeq(e.s[1], 1, 2) = "<h"

\* C24: heading markers stay balanced in the buffer: the final buffer holds
\* exactly one End(Heading) and exactly one rewritten heading-open marker
\* for every heading that declares no tab, none of either for a heading
\* that declares a tab, and no Start(Heading).
C24_HeadingMarkersBalanced ==
    pc = "done" =>
        LET plain == Len(SelectSeq(SrcHeadings, DeclaresNoTab)) IN
        /\ Len(SelectSeq(events, IsHeadingOpenMarkup)) = plain
        /\ Len(SelectSeq(events, IsHeadingEnd)) = plain
        /\ SelectSeq(events, IsHeadingStart) = <<>>


\* C25: when End(BlockQuote) arrives, the start marker the backward scan
\* of Callout selects in the buffer is the opener of the block quote that
\* is ending, nested closed block quotes skipped; and when that block
\* quote's title line begins with a callout keyword, Callout handles the
\* event and that opener becomes a callout opener.
C25_ScanSelectsOwnStart ==
    (/\ last # None
     /\ pc # "done"
     /\ EndsBlockQuote) =>
        LET before == last[1].st.events
            n == Len(before)
            own == OwnStart(before, n, 0)
        IN  /\ RFindStart(before, "BlockQuote", n) = own
            /\ (/\ TitleIsOwn
                /\ SrcTitleWords # <<>>
                /\ C12_Kind(Join(SrcTitleWords[1])) # "") =>
                  /\ pc # "panicked"
                  /\ last[1].called[1].handled
                  /\ own > 0
                  /\ IsCalloutOpen(events[own])


\* a heading is open at the end of the source events s
OpenHeading(s) ==
    \E i \in 1..Len(s) :
        /\ IsStart(s[i], "Heading")
        /\ \A j \in (i + 1)..Len(s) : ~IsEnd(s[j], "Heading")

\* C26: an inline link to '#/tab/<id>' that starts outside a heading is no
\* tab declaration: Tabs neither handles it nor outputs anything, the
\* current tab group and tab stay as they were, and the link goes on to
\* LinkRewriter and is buffered as a link start.
C26_TabLinkOutsideHeading ==
    (/\ last # None
     /\ pc # "done"
     /\ src # <<>>
     /\ IsTabLink(src[Len(src)])
     /\ ~OpenHeading(SubSeq(src, 1, Len(src) - 1))) =>
        LET called == last[1].called
            before == last[1].st
        IN  /\ pc = "parsing"
            /\ \A i \in 1..Len(called) :
                  called[i].ext = "Tabs" =>
                     ~called[i].handled /\ called[i].evs = <<>>
            /\ current_tabgroup = before.tabgroup
            /\ current_tab = before.tab
            /\ \E i \in 1..Len(called) : called[i].ext = "LinkRewriter"
            /\ Len(events) = Len(before.events) + 1
            /\ IsStart(events[Len(events)], "Link")


\* a panel opener of an active tab
IsActivePanelOpen(e) == \E id \in TabIds : e = PanelOpen(TRUE, id)

\* C27: while a tab group is open, of the panel openers buffered for it
\* and of the tabs recorded for it (the current tab included) only the
\* first is active; and a tab link that arrives when the group is already
\* open buffers '</div>' and then an inactive panel opener.
C27_OneActiveTab ==
    (pc = "parsing" /\ IsSome(current_tabgroup)) =>
        LET group == Unwrap(current_tabgroup)
            panels == SelectSeq(SubSeq(events, group.index + 1, Len(events)),
                                IsPanelOpen)
            tabs == group.tabs
                    \o (IF IsSome(current_tab) THEN current_tab ELSE <<>>)
        IN  /\ \A i \in 1..Len(panels) : IsActivePanelOpen(panels[i]) <=> i = 1
            /\ \A i \in 1..Len(tabs) : tabs[i].is_active <=> i = 1
            /\ (/\ last # None
                /\ IsTabLink(last[1].ev)
                /\ IsSome(last[1].st.tabgroup)) =>
                  events = last[1].st.events
                           \o <<DivClose,
                                PanelOpen(FALSE, TabId(last[1].ev.url))>>


\* the div openers and the div closers of Tabs among the events s
TabDivOpeners(s) ==
    Len(SelectSeq(s, IsTabGroupOpen)) + Len(SelectSeq(s, IsPanelOpen))
TabDivClosers(s) == Len(SelectSeq(s, LAMBDA e : e = DivClose))

\* C28: when a Rule or the end of the document has closed a tab group, the
\* buffer from the group's reserved index on holds as many '</div>' as it
\* holds tabgroup and tab-panel div openers.
C28_GroupDivsBalanced ==
    (/\ last # None
     /\ pc # "panicked"
     /\ IsSome(last[1].st.tabgroup)
     /\ ~IsSome(current_tabgroup)) =>
        LET group == Unwrap(last[1].st.tabgroup)
            own == SubSeq(events, group.index + 1, Len(events))
        IN  TabDivOpeners(own) = TabDivClosers(own)


\* C29: while a tab group is open, the buffer holds the group's tabgroup
\* div opener at the reserved index and its placeholder right after it;
\* and when the group is closed, the event the splice replaced by the tab
\* list was that placeholder and the opener is still in front of the list.
C29_PlaceholderStable ==
    /\ (pc = "parsing" /\ IsSome(current_tabgroup)) =>
          LET group == Unwrap(current_tabgroup) IN
          /\ Len(events) >= group.index + 2
          /\ events[group.index + 1] = TabGroupOpen
          /\ events[group.index + 2] = Placeholder
    /\ (/\ last # None
        /\ pc # "panicked"
        /\ IsSome(last[1].st.tabgroup)
        /\ ~IsSome(current_tabgroup)) =>
          LET group == Unwrap(last[1].st.tabgroup)
              before == last[1].st.events
          IN  /\ before[group.index + 2] = Placeholder
              /\ events[group.index + 1] = TabGroupOpen
              /\ events[group.index + 2] = TabListOpen


\* the position in the source events s of the last tab link of the heading
\* that s ends, 0 when s does not end a heading or the heading has none
C30_TabLink(s) ==
    IF s = <<>> \/ ~IsEnd(s[Len(s)], "Heading") THEN 0
    ELSE LET found == {i \in (RFindStart(s, "Heading", Len(s)) + 1)..Len(s) :
                          IsTabLink(s[i])}
         IN  IF found = {} THEN 0
             ELSE CHOOSE i \in found : \A j \in found : j <= i

\* the text and code of the source events s after position i, as the
\* extensions receive it
C30_TitleAfter(s, i) ==
    Concat([j \in 1..Len(s) |->
              IF j > i /\ IsTextOrCode(s[j]) THEN process_text(s[j]).s
              ELSE <<>>], 1, Len(s))

\* the tab the heading that the source events s end declares
C30_Tab(s, tab) ==
    LET url == s[C30_TabLink(s)].url
        n == Len(TabPrefix) + Len(tab.id)
    IN  /\ StartsWith(url, TabPrefix \o tab.id)
        /\ \A k \in 1..Len(tab.id) : tab.id[k] # "/"
        /\ Len(url) > n => url[n + 1] = "/"
        /\ tab.title = C30_TitleAfter(s, C30_TabLink(s))

\* C30: the step that processes the End(Heading) of a heading with a tab
\* link does not panic and is handled by Tabs; it blanks the heading's
\* Start and every event after it in the buffer that is not Html, leaves
\* the Html events and everything before the Start as they were, and
\* buffers nothing; it pushes to the group one Tab, whose id is the path
\* segment after '#/tab/' and whose title is the text and code between the
\* link start and the heading's end, and clears the current tab; and it
\* adds nothing to headings and links.
C30_TabHeadingEnd ==
    [][(src' # src /\ C30_TabLink(src') > 0) =>
          LET before == last'[1].st
              n == Len(before.events)
              own == RFindStart(before.events, "Heading", n)
              called == last'[1].called
          IN  /\ pc' = "parsing"
              /\ last'[1].handled
              /\ called[Len(called)] =
                    [ext |-> "Tabs", handled |-> TRUE, evs |-> <<>>]
              /\ own > 0
              /\ events' =
                    [j \in 1..n |->
                       IF j < own \/ before.events[j].k = "Html"
                       THEN before.events[j] ELSE Blank]
              /\ current_tab' = None
              /\ IsSome(before.tabgroup)
              /\ IsSome(current_tabgroup')
              /\ LET old == Unwrap(before.tabgroup)
                     new == Unwrap(current_tabgroup')
                 IN  /\ new.index = old.index
                     /\ Len(new.tabs) = Len(old.tabs) + 1
                     /\ SubSeq(new.tabs, 1, Len(old.tabs)) = old.tabs
                     /\ C30_Tab(src', new.tabs[Len(new.tabs)])
              /\ headings' = headings
              /\ links' = links]_vars

\* a tab heading with text before and after its link has ended in an open
\* group: the tab is titled by the text after the link, the panel opener
\* is kept and the heading's events are blanked
C30_TabHeadingBlanked ==
    /\ pc = "parsing"
    /\ C30_TabLink(src) > 0
    /\ \E i \in 1..(C30_TabLink(src) - 1) : src[i].k = "Text"
    /\ IsSome(current_tabgroup)
    /\ LET tabs == Unwrap(current_tabgroup).tabs IN
       /\ Len(tabs) = 2
       /\ tabs[2].id = <<"b">>
       /\ tabs[2].title # <<>>
    /\ IsPanelOpen(events[Len(events) - 2])
    /\ events[Len(events)] = Blank


\* C31: a Rule that arrives while a tab group is open is handled by Tabs,
\* which closes the group (no group, no tab, no placeholder left) and
\* buffers two '</div>' and no Rule; a Rule that arrives while no group is
\* open gets no output from Tabs, is not handled, leaves the Tabs state as
\* it was and is appended to the unchanged buffer.
C31_RuleClosesGroup ==
    (/\ last # None
     /\ pc # "done"
     /\ src # <<>>
     /\ IsRule(src[Len(src)])) =>
        LET before == last[1].st
            called == last[1].called
            byTabs == called[Len(called)]
        IN  /\ pc = "parsing"
            /\ \E i \in 1..Len(called) : called[i].ext = "Tabs"
            /\ IF IsSome(before.tabgroup)
               THEN /\ byTabs = [ext |-> "Tabs", handled |-> TRUE,
                                 evs |-> <<DivClose, DivClose>>]
                    /\ last[1].handled
                    /\ current_tabgroup = None
                    /\ current_tab = None
                    /\ SelectSeq(events, IsPlaceholder) = <<>>
                    /\ SelectSeq(events, IsRule)
                          = SelectSeq(before.events, IsRule)
                    /\ SubSeq(events, Len(events) - 1, Len(events))
                          = <<DivClose, DivClose>>
               ELSE /\ \A i \in 1..Len(called) :
                          called[i].ext = "Tabs" =>
                             ~called[i].handled /\ called[i].evs = <<>>
                    /\ ~last[1].handled
                    /\ current_tabgroup = None
                    /\ current_tab = before.tab
                    /\ events = before.events \o <<Rule>>

\* C31, witness: a Rule has closed a group with a tab, and a second Rule,
\* met with no group open, is buffered
C31_RuleAfterClosingRule ==
    /\ AfterIteration
    /\ IsRule(last[1].ev)
    /\ last[1].st.tabgroup = None
    /\ LabelsOf(events, 1) # <<>>
    /\ Len(SelectSeq(src, IsRule)) = 2
    /\ Len(SelectSeq(events, IsRule)) = 1


\* the positions in the source of the starts of the links that have ended
\* and are recorded: inline, no tab declaration, with a classifiable href
C32_Recorded ==
    SelectSeq([i \in 1..Len(src) |-> i],
              LAMBDA i :
                 /\ IsStart(src[i], "Link")
                 /\ src[i].lt = "Inline"
                 /\ ~IsTabLink(src[i])
                 /\ IsSome(Classify(LinkHref(link_rewrite_rules, url_root,
                                             url_params, src[i].url)))
                 /\ FFindEnd(src, "Link", i) > 0)

\* the Text between the start of the link at position i of the source and
\* its end, as the extensions receive it
C32_TextOf(i) ==
    LET stop == FFindEnd(src, "Link", i) IN
    Concat([j \in 1..Len(src) |->
              IF i < j /\ j < stop /\ src[j].k = "Text"
              THEN process_text(src[j]).s ELSE <<>>], 1, Len(src))

\* C32: links holds one Link for each recorded link that has ended, in
\* order, and its title is the Text between the link's Start and End,
\* that of nested inline markup and of image alt text included, in order
\* and with nothing added.
C32_TitleIsLinkText ==
    pc # "panicked" =>
        /\ Len(links) = Len(C32_Recorded)
        /\ \A k \in 1..Len(links) :
              links[k].title = C32_TextOf(C32_Recorded[k])


\* the start of an inline link whose final URL fails to parse with an
\* error other than EmptyHost and RelativeUrlWithoutBase
C33_Discarded(e) ==
    /\ IsStart(e, "Link")
    /\ e.lt = "Inline"
    /\ UrlParse(LinkHref(link_rewrite_rules, url_root, url_params, e.url))
          = "Other"

\* C33: the step that processes the start of such a link does not panic,
\* records nothing, opens no current_link and buffers Start(Link) with the
\* final URL; a Text inside such a link is added to no Link, recorded or
\* current; every End(Link) is buffered and leaves no current_link, and
\* the End of such a link records nothing.
C33_UnparsableLinkDiscarded ==
    [][src' # src =>
          LET ev == src'[Len(src')]
              inside == \E i \in 1..Len(stack) : C33_Discarded(stack[i])
          IN  /\ pc' = "parsing"
              /\ C33_Discarded(ev) =>
                    /\ current_link' = None
                    /\ links' = links
                    /\ events' = Append(events,
                          StartLink(ev.lt,
                                    LinkHref(link_rewrite_rules, url_root,
                                             url_params, ev.url),
                                    ev.title))
              /\ (inside /\ ev.k = "Text") =>
                    /\ current_link' = None
                    /\ links' = links
              /\ IsEnd(ev, "Link") =>
                    /\ current_link' = None
                    /\ events' = Append(events, ev)
                    /\ inside => links' = links]_vars

\* C33, witness: a parsed document in which a link with an unparsable URL
\* and a text has ended, followed by a link that is recorded
C33_DiscardedThenRecorded ==
    /\ pc = "done"
    /\ Len(links) = 1
    /\ \E i \in 1..Len(src) :
          /\ C33_Discarded(src[i])
          /\ src[i + 1].k = "Text"
          /\ IsEnd(src[i + 2], "Link")
          /\ \E j \in (i + 3)..Len(src) :
                IsStart(src[j], "Link") /\ ~C33_Discarded(src[j])


\* C34: with url_params non-empty, an image whose rewritten URL is local
\* (it parses without host, or fails with RelativeUrlWithoutBase or
\* EmptyHost) is buffered with the rewritten URL followed by '?' and the
\* pairs in their order, as a link is; any other image is buffered with
\* the rewritten URL.
C34_ImageParametersAppended ==
    (AfterIteration /\ IsStart(last[1].ev, "Image")) =>
        LET rewritten == C4_Claimed(last[1].ev.url)
            local == UrlParse(rewritten) \in
                        {"NoHost", "RelativeUrlWithoutBase", "EmptyHost"}
            emitted == events[Len(events)]
        IN  /\ IsStart(emitted, "Image")
            /\ IF url_params # <<>> /\ local
               THEN emitted.url = rewritten \o <<"?">> \o C5_Query(url_params, 1)
               ELSE emitted.url = rewritten


\* C35: when the End of a math block arrives in a build with a renderer
\* and the renderer rejects the block's body, parse does not panic, the
\* body's Text event stays in the buffer as it was, '</div>' is buffered
\* after it and MathBlock reports the event handled.
C35_RendererErrorFallsBack ==
    (/\ last # None
     /\ pc # "done"
     /\ features \cap MathFeatures # {}
     /\ IsFenced(last[1].ev, "End")
     /\ Join(FirstToken(last[1].ev.s)) = "math"
     /\ last[1].st.events # <<>>
     /\ LET body == last[1].st.events[Len(last[1].st.events)] IN
        body.k = "Text" /\ RenderFails(body.s)) =>
        /\ pc = "parsing"
        /\ last[1].handled
        /\ last[1].called[Len(last[1].called)].ext = "MathBlock"
        /\ events = last[1].st.events \o <<Html("</div>")>>


\* C36: when the End of a fenced code block reaches CodeBlock, the first
\* token of its info string names a syntax and the last buffered event is
\* Text, parse does not panic, CodeBlock replaces exactly that Text by the
\* highlighted Html, outputs the End event and the 'code' flag and reports
\* the event handled, so that the End is buffered once.
C36_FirstTokenHighlighted ==
    (/\ last # None
     /\ pc # "done"
     /\ IsFenced(last[1].ev, "End")
     /\ WasOffered("CodeBlock")
     /\ find_syntax_by_token(FirstToken(last[1].ev.s))
     /\ last[1].st.events # <<>>
     /\ last[1].st.events[Len(last[1].st.events)].k = "Text") =>
        LET before == last[1].st
            n == Len(before.events)
            r == CodeBlock_process_event(before, last[1].ev)
        IN  /\ pc = "parsing"
            /\ last[1].handled
            /\ last[1].called[Len(last[1].called)] =
                  [ext |-> "CodeBlock", handled |-> TRUE,
                   evs |-> <<last[1].ev>>]
            /\ r.blk = <<"code">>
            /\ events =
                  [before.events EXCEPT ![n] =
                     Html(highlighted_html_for_string(before.events[n].s))]
                  \o <<last[1].ev>>


\* the position in the source events s[1..i] of the Start of the list that
\* is open after them, the lists nested in it that have closed skipped
RECURSIVE C37_OwnList(_, _, _)
C37_OwnList(s, i, depth) ==
    IF i = 0 THEN 0
    ELSE IF IsEnd(s[i], "List") THEN C37_OwnList(s, i - 1, depth + 1)
    ELSE IF IsStart(s[i], "List")
    THEN IF depth = 0 THEN i ELSE C37_OwnList(s, i - 1, depth - 1)
    ELSE C37_OwnList(s, i - 1, depth)

\* C37: when Tasklist is given the End of a list, it does not panic, does
\* not handle the event and outputs nothing; if a TaskListMarker lies
\* between the Start of the list that ends and this End, that Start, and
\* nothing else in the buffer, becomes '<ul class="checklist">', and if
\* none does the buffer stays as it was.
C37_OwnListRewritten ==
    (/\ last # None
     /\ src # <<>>
     /\ IsEnd(src[Len(src)], "List")) =>
        LET before == last[1].st.events
            own == C37_OwnList(src, Len(src) - 1, 0)
            marked == \E j \in (own + 1)..(Len(src) - 1) :
                          src[j].k = "TaskListMarker"
        IN  /\ pc = "parsing"
            /\ last[1].called =
                  <<[ext |-> "Tasklist", handled |-> FALSE, evs |-> <<>>]>>
            /\ Len(before) = Len(src) - 1
            /\ events =
                  (IF marked
                   THEN [before EXCEPT ![own] = Html("<ul class=\"checklist\">")]
                   ELSE before)
                  \o <<src[Len(src)]>>


\* the class tokens on the div and label start tags of the markup h, each
\* with the tag it is on
C38_Classes(h) ==
    LET toks == Tokenize(h, [i |-> 1, acc |-> <<>>]) IN
    UNION {UNION {{<<toks[i].name, c>> :
                     c \in {w[k] : k \in 1..Len(w)}} :
                  w \in {split_whitespace(toks[i].attrs[a].v) :
                           a \in {b \in 1..Len(toks[i].attrs) :
                                     toks[i].attrs[b].n = "class"}}} :
           i \in {j \in 1..Len(toks) :
                     toks[j].t = "start" /\ toks[j].name \in {"div", "label"}}}

\* C38: once parse has finished, every class token on a div or label of
\* the markup written from the buffer is in the sanitizer's allow-list of
\* that tag, and the html parse returns has the same class tokens on its
\* divs and labels.
C38_EmittedClassesAllowed ==
    pc = "done" =>
        LET raw == push_html(events) IN
        /\ \A p \in C38_Classes(raw) : p[2] \in AllowedClasses(p[1])
        /\ C38_Classes(ParsedMarkdown.html) = C38_Classes(raw)


\* one iteration of the loop of convert_emojis: the remaining input
\* becomes a strictly shorter suffix of itself, which starts after the
\* closing colon of a recognised shortcode or at the closing colon of an
\* unrecognised candidate
C39_IterationShortens ==
    convert_emojis_loop =>
        LET before == Unwrap(convert).input
            after == Unwrap(convert').input
            k == Len(before) - Len(after)
            shortcode == SubSeq(before, Find(before, ":") + 1, k)
        IN  /\ k >= 1
            /\ after = Drop(before, k)
            /\ \/ /\ before[k] = ":"
                  /\ Join(SubSeq(shortcode, 1, Len(shortcode) - 1)) \in Shortcodes
               \/ /\ after # <<>> /\ Head(after) = ":"
                  /\ Join(shortcode) \notin Shortcodes

\* what has been written so far, followed by what the rest of the input
\* comes to, is the text with its recognised shortcodes replaced and every
\* other character once and in order; after the return nothing is left
C39_WrittenOnceInOrder ==
    IsSome(convert) =>
        LET c == Unwrap(convert) IN
        IF c.pc = "returned"
        THEN /\ c.output = C21_Replaced(c.text)
             /\ c.output = EmojiConverter_process_text(c.text)
        ELSE c.output \o C21_Replaced(c.input) = C21_Replaced(c.text)

\* C39: convert_emojis terminates on every text: each iteration of its loop
\* strictly shortens the remaining input, resuming after the closing colon
\* of a recognised shortcode or at the closing colon of an unrecognised
\* candidate, and every character that is not part of a recognised
\* ':shortcode:' is written to the output exactly once and in order.
C39_ConvertTerminates ==
    /\ [][C39_IterationShortens]_vars
    /\ [](C39_WrittenOnceInOrder)
    /\ <>(IsSome(convert) /\ Unwrap(convert).pc = "returned")

\* C39, witness: the call has returned from '::smile:', whose empty
\* candidate is unrecognised and whose closing colon opened a recognised
\* shortcode
C39_ReturnedAfterBothArms ==
    /\ IsSome(convert)
    /\ Unwrap(convert).pc = "returned"
    /\ Unwrap(convert).text = <<":">> \o Str_smile
    /\ Unwrap(convert).output = <<":", Emoji("smile")>>

=============================================================================
